---- MODULE Spec2Model ----
(***************************************************************************)
(* A model of the client connection of the SQL server (server/conn.go):    *)
(* the command loop clientConn.Run with the administrative                 *)
(* ShutdownOrNotify running beside it, the dispatch of a command, the      *)
(* multi-statement COM_QUERY handler, and the cursor fetch of              *)
(* writeChunksWithFetchSize.                                               *)
(*                                                                         *)
(* The query executor, the session and the socket are collaborators: what  *)
(* they return (rows, errors, panics, the in-transaction bit) is chosen    *)
(* nondeterministically where the code calls them.                         *)
(***************************************************************************)
EXTENDS Integers, Sequences, FiniteSets, TLC

(***************************************************************************)
(* Bounds of the model.                                                    *)
(***************************************************************************)
\* the largest number of statements one COM_QUERY payload parses into
MaxStmts == 2
\* the largest number of rows a result set of the general fetch model holds
MaxRows == 6
\* the largest fetchSize a COM_STMT_FETCH of the general fetch model asks for
MaxFetchSize == 3
\* the largest number of rows one ResultSet.Next call returns
MaxChunkRows == 3
\* the largest number of failures (of Next, of a row write) one cursor meets
MaxFailures == 1
\* the calls of ResultSet.Next one statement's result set takes at most
MaxNextCalls == 3
\* the arguments one derivation of a collation takes at most
MaxArgs == 3
\* the statements init_connect holds at most, and the rows of one of its result sets
MaxInitStmts == 2
MaxInitRows == 2
MaxPackets == 3

(***************************************************************************)
(* Program constants.                                                      *)
(***************************************************************************)
connStatusDispatching == 0
connStatusReading == 1
connStatusShutdown == 2
connStatusWaitShutdown == 3

\* the authentication plugins handshake knows
AuthNativePassword == "mysql_native_password"
AuthCachingSha2Password == "caching_sha2_password"
AuthSocket == "auth_socket"

\* the capability bits handshake tests
ClientProtocol41 == "ClientProtocol41"
ClientSSL == "ClientSSL"
ClientPluginAuth == "ClientPluginAuth"

\* cc.pkt.sequence is a uint8
SequenceModulus == 256

\* the failures of readPacket in Run
ReadErrs == {"io.EOF", "timeout", "other"}

\* server status bits, by name
ServerStatusInTrans == "ServerStatusInTrans"
ServerMoreResultsExists == "ServerMoreResultsExists"
ServerStatusCursorExists == "ServerStatusCursorExists"
ServerStatusLastRowSend == "ServerStatusLastRowSend"

\* tidb_multi_statement_mode
OffInt == "OFF"
OnInt == "ON"
WarnInt == "WARN"

\* the commands of the dispatch table that the model follows
Commands == {"ComQuery", "ComPing", "ComQuit", "ComUnknown"}

\* the errors a collaborator can return, by the class Run distinguishes
ErrKinds == {"other", "ErrTiFlashServerTimeout", "ErrResultUndetermined", "ErrCritical"}

VARIABLES
    status,           \* cc.status
    pc,               \* the position of the goroutine in Run
    cmd,              \* data[0] of the packet Run read last
    nStmts,           \* len(stmts) of the COM_QUERY being handled
    stmtIdx,          \* the loop index i of handleQuery, from 1
    retrying,         \* handleQuery is in its TiFlash fallback of stmts[i]
    clientMultiStmts, \* ClientCapability & ClientMultiStatements
    multiStmtMode,    \* the session's MultiStatementMode
    allowFallback,    \* AllowFallbackToTiKV holds TiFlash
    inTrans,          \* cc.ctx.Status() & ServerStatusInTrans
    out,              \* what was written to the client for the command read last
    executed,         \* the statements handed to ExecuteStmt for that command
    err,              \* what dispatch returned for that command
    panicking,        \* a panic is unwinding Run
    closed,           \* Run's exit handler called cc.Close
    sequence,         \* cc.pkt.sequence
    cancelFunc,       \* cc.mu.cancelFunc is set
    readErr,          \* what readPacket returned last in Run
    pcS,              \* the position of the caller in ShutdownOrNotify
    sonSeen,          \* the status ShutdownOrNotify found at its CAS, -1 before it
    sonRet,           \* what ShutdownOrNotify returned last
    rsTotal,          \* the rows the executor will produce for the cursor, 1..rsTotal
    rsPos,            \* the rows ResultSet.Next has handed out
    rsDone,           \* ResultSet.Next has returned an empty chunk
    rsStored,         \* rs.GetFetchedRows()
    rsClosed,         \* rs.Close was called
    fpc,              \* the position in writeChunksWithFetchSize
    fetchSize,        \* the fetchSize of the fetch in progress
    fetchedRows,      \* the local fetchedRows of the fetch in progress
    fetchOut,         \* the fetch responses written so far
    nextFails,        \* the calls of ResultSet.Next that failed
    writeFails,       \* the fetch responses cut short by a failed row write
    clientFetchSizes, \* the fetchSize values the client sends
    hpc,              \* the position in handshake
    hsLog,            \* what handshake wrote, read and called so far, in order
    salt,             \* cc.salt
    tlsConfig,        \* cc.server.tlsConfig is not nil
    requireSecureTransport, \* Security.RequireSecureTransport
    isUnixSocket,     \* cc.isUnixSocket
    tlsConn,          \* cc.tlsConn is not nil
    ctxOpen,          \* cc.ctx is not nil
    isOldVersion,     \* the local isOldVersion
    respCapability,   \* resp.Capability
    respAuthPlugin,   \* resp.AuthPlugin
    respAuth,         \* resp.Auth, by the packet it was taken from
    ccAuthPlugin,     \* cc.authPlugin
    userplugin,       \* the plugin of the account the client names
    herr,             \* what handshake returned
    wpc,              \* the position in handleStmt, writeResultset and writeChunks
    wCursor,          \* serverStatus has ServerStatusCursorExists
    firstNext,        \* the local firstNext of writeChunks
    gotColumnInfo,    \* the local gotColumnInfo of writeChunks
    nextCalls,        \* the calls of rs.Next made by writeChunks
    rowCount,         \* the rows of the chunk not yet written
    wWritten,         \* the packets of the statement's response written so far
    wRetryable,       \* the first value handleStmt returns
    wErr,             \* the second value handleStmt returns, by where it arose
    authUser,         \* <<the plugin of the account the session is authenticated as>>, or <<>>
    cpc,              \* the position of the caller of CheckAndDeriveCollationFromExprs
    exprs,            \* the arguments whose collation is being derived
    evalType,         \* the evalType CheckAndDeriveCollationFromExprs was called with
    charsetInfo,      \* what ctx.GetSessionVars().GetCharsetInfo() gave
    ec,               \* <<the *ExprCollation returned>>, or <<>> for nil
    cerr,             \* the error returned
    data,             \* which packet of the client the local data of
                      \* readOptionalSSLRequestAndHandshakeResponse holds: 0 none, 1, 2
    respHeaderOf,     \* the packet whose header filled resp.Capability and resp.Collation
    icStmts,          \* the statements of init_connect not yet executed
    icRows,           \* the rows the result set of the current init_connect statement still holds
    funcName,         \* the function deriveCollation was called for
    argTp,            \* argTps[0] of that call
    lpc,              \* the position of handleLoadData
    ppc,              \* the position of the processStream goroutine
    drained,          \* loadDataInfo.Drained
    quit,             \* loadDataInfo.QuitCh is closed
    lerr,             \* the local err of handleLoadData, what CommitWork returned
    lret,             \* what handleLoadData returned
    psErr,            \* processStream ends with an error or a panic
    readLog           \* the calls of cc.readPacket so far: who read, and what

connVars == <<status, pc, cmd, nStmts, stmtIdx, retrying, clientMultiStmts, multiStmtMode,
              allowFallback, inTrans, out, executed, err, panicking, closed,
              sequence, cancelFunc,
              readErr>>
sonVars == <<pcS, sonSeen, sonRet>>
fetchVars == <<rsTotal, rsPos, rsDone, rsStored, rsClosed, fpc, fetchSize, fetchedRows, fetchOut,
               nextFails, writeFails, clientFetchSizes>>
hsVars == <<hpc, hsLog, salt, tlsConfig, requireSecureTransport, isUnixSocket, tlsConn, ctxOpen,
            isOldVersion, respCapability, respAuthPlugin, respAuth, ccAuthPlugin, userplugin,
            herr, authUser, icStmts, icRows, data, respHeaderOf>>
chunkVars == <<wpc, wCursor, firstNext, gotColumnInfo, nextCalls, rowCount, wWritten,
               wRetryable, wErr>>
collVars == <<cpc, exprs, evalType, charsetInfo, ec, cerr, funcName, argTp>>
loadVars == <<lpc, ppc, drained, quit, lerr, lret, psErr, readLog>>
auxVars == <<hsVars, chunkVars, collVars, loadVars>>
vars == <<connVars, sonVars, fetchVars, auxVars>>

(***************************************************************************)
(* The state after newClientConn and a completed handshake.                *)
(***************************************************************************)
newClientConn ==
    /\ status = connStatusDispatching
    /\ pc = "cas1"
    /\ cmd = "none"
    /\ nStmts = 0
    /\ stmtIdx = 0
    /\ retrying = FALSE
    /\ clientMultiStmts \in BOOLEAN
    /\ multiStmtMode \in {OffInt, OnInt, WarnInt}
    /\ allowFallback \in BOOLEAN
    /\ inTrans = FALSE
    /\ out = <<>>
    /\ executed = <<>>
    /\ err = "none"
    /\ panicking = FALSE
    /\ closed = FALSE
    /\ sequence = 0
    /\ cancelFunc = FALSE
    /\ readErr = "nil"
    /\ pcS = "idle"
    /\ sonSeen = -1
    /\ sonRet = "none"

\* no cursor is open
NoCursor ==
    /\ rsTotal = 0
    /\ rsPos = 0
    /\ rsDone = FALSE
    /\ rsStored = <<>>
    /\ rsClosed = FALSE
    /\ fpc = "idle"
    /\ fetchSize = 0
    /\ fetchedRows = <<>>
    /\ fetchOut = <<>>
    /\ nextFails = 0
    /\ writeFails = 0
    /\ clientFetchSizes = {}

\* the handshake is over: the session is authenticated
HandshakeDone ==
    /\ hpc = "done"
    /\ hsLog = <<>>
    /\ salt = 0
    /\ tlsConfig = FALSE
    /\ requireSecureTransport = FALSE
    /\ isUnixSocket = FALSE
    /\ tlsConn = FALSE
    /\ ctxOpen = TRUE
    /\ isOldVersion = FALSE
    /\ respCapability = {}
    /\ respAuthPlugin = ""
    /\ respAuth = ""
    /\ ccAuthPlugin = AuthNativePassword
    /\ userplugin = ""
    /\ herr = "nil"
    /\ authUser = <<"">>
    /\ icStmts = 0
    /\ icRows = 0
    /\ data = 0
    /\ respHeaderOf = 0

\* no statement is being handled
NoStmt ==
    /\ wpc = "idle"
    /\ wCursor = FALSE
    /\ firstNext = TRUE
    /\ gotColumnInfo = FALSE
    /\ nextCalls = 0
    /\ rowCount = 0
    /\ wWritten = 0
    /\ wRetryable = FALSE
    /\ wErr = "none"

\* no collation is being derived
NoCollation ==
    /\ cpc = "idle"
    /\ exprs = <<>>
    /\ evalType = ""
    /\ charsetInfo = [Charset |-> "", Collation |-> ""]
    /\ ec = <<>>
    /\ cerr = "nil"
    /\ funcName = ""
    /\ argTp = ""

\* no LOAD DATA is in progress
NoLoadData ==
    /\ lpc = "idle"
    /\ ppc = "none"
    /\ drained = FALSE
    /\ quit = FALSE
    /\ lerr = "none"
    /\ lret = "none"
    /\ psErr = FALSE
    /\ readLog = <<>>

Init == NoLoadData /\ newClientConn /\ NoCursor /\ HandshakeDone /\ NoStmt /\ NoCollation

(***************************************************************************)
(* Packets written to the client.                                          *)
(***************************************************************************)
\* writeError: one ERR packet
ErrPacket == [k |-> "err", stmt |-> 0, status |-> {}, warn |-> FALSE]

\* writeOK / writeOkWith(status): one OK packet
OkPacket(i, st, w) == [k |-> "ok", stmt |-> i, status |-> st, warn |-> w]

\* writeResultset run to its end: column count, columns, EOF, rows, EOF(status)
ResultSetPackets(i, st, w) == [k |-> "resultset", stmt |-> i, status |-> st, warn |-> w]

\* a result set cut short by an error after the column descriptors were sent
PartialResultSet(i, st) == [k |-> "partial", stmt |-> i, status |-> st, warn |-> FALSE]

\* cc.ctx.Status(), the bits the session sets
ctxStatus(t) == IF t THEN {ServerStatusInTrans} ELSE {}

\* cc.pkt.sequence once the packets of o that out does not hold yet are written:
\* writePacket counts every packet, in a byte
sequenceAfter(o) == (sequence + Len(o) - Len(out)) % SequenceModulus

(***************************************************************************)
(* Run, after dispatch returned e with o written: lines 1030-1069.         *)
(***************************************************************************)
\* a faulty variant: every dispatch error ends the connection
RunAfterDispatchReturns(e, o) ==
    /\ err' = e
    /\ out' = o
    /\ sequence' = IF e = "nil" THEN 0 ELSE sequenceAfter(o)
    /\ pc' = IF e = "nil" THEN "cas1" ELSE IF e = "ErrCritical" THEN "fatal" ELSE "defer"

\* a faulty variant: line 1068 is skipped after an error packet
RunAfterDispatchNoReset(e, o) ==
    /\ err' = e
    /\ out' = IF e \in {"nil", "io.EOF", "ErrResultUndetermined", "ErrCritical"}
              THEN o ELSE Append(o, ErrPacket)
    /\ sequence' = IF e = "nil" THEN 0 ELSE (sequenceAfter(o) + 1) % SequenceModulus
    /\ pc' = IF e \in {"io.EOF", "ErrResultUndetermined"} THEN "defer"
             ELSE IF e = "ErrCritical" THEN "fatal" ELSE "cas1"

RunAfterDispatch(e, o) ==
    /\ err' = e
    /\ IF e = "nil"
       THEN /\ out' = o
            /\ sequence' = 0
            /\ pc' = "cas1"
       ELSE IF e \in {"io.EOF", "ErrResultUndetermined"}
       THEN /\ out' = o
            /\ sequence' = sequenceAfter(o)
            /\ pc' = "defer"
       ELSE IF e = "ErrCritical"
       THEN \* logutil.Fatal stops the process: no deferred call runs
            /\ out' = o
            /\ sequence' = sequenceAfter(o)
            /\ pc' = "fatal"
       ELSE \* writeError, and line 1068
            /\ out' = Append(o, ErrPacket)
            /\ sequence' = 0
            /\ pc' = "cas1"

\* a panic leaves dispatch and unwinds to Run's deferred function
RunPanic(o) ==
    /\ out' = o
    /\ sequence' = sequenceAfter(o)
    /\ err' = err
    /\ panicking' = TRUE
    /\ pc' = "defer"

(***************************************************************************)
(* clientConn.Run, the loop: lines 991-1028.                               *)
(***************************************************************************)
\* a faulty variant: a plain store in place of the compare-and-swap
CompareAndSwapStores(cur, old, new) == <<new, TRUE>>

\* atomic.CompareAndSwapInt32(&cc.status, old, new): the new status and whether it swapped
CompareAndSwap(cur, old, new) == IF cur = old THEN <<new, TRUE>> ELSE <<cur, FALSE>>

\* a faulty variant: the loop goes round again when the CAS fails
RunCasReadingSpins ==
    /\ pc = "cas1"
    /\ LET r == CompareAndSwap(status, connStatusDispatching, connStatusReading)
       IN /\ status' = r[1]
          /\ pc' = IF r[2] THEN "load" ELSE "cas1"
    /\ UNCHANGED <<cmd, nStmts, stmtIdx, retrying, clientMultiStmts, multiStmtMode,
                   allowFallback, inTrans, out, executed, err, panicking, closed,
                   sequence, cancelFunc,
                   readErr>>
    /\ UNCHANGED <<sonVars, fetchVars, auxVars>>

\* line 992: CAS(Dispatching -> Reading); return when it fails
RunCasReading ==
    /\ pc = "cas1"
    /\ LET r == CompareAndSwap(status, connStatusDispatching, connStatusReading)
       IN /\ status' = r[1]
          /\ pc' = IF r[2] THEN "load" ELSE "defer"
    /\ UNCHANGED <<cmd, nStmts, stmtIdx, retrying, clientMultiStmts, multiStmtMode,
                   allowFallback, inTrans, out, executed, err, panicking, closed,
                   sequence, cancelFunc,
                   readErr>>
    /\ UNCHANGED <<sonVars, fetchVars, auxVars>>

\* line 995: the second operand of ||, a separate atomic load
RunLoadStatus ==
    /\ pc = "load"
    /\ pc' = IF status = connStatusWaitShutdown THEN "defer" ELSE "read"
    /\ UNCHANGED <<status, cmd, nStmts, stmtIdx, retrying, clientMultiStmts, multiStmtMode,
                   allowFallback, inTrans, out, executed, err, panicking, closed,
                   sequence, cancelFunc,
                   readErr>>
    /\ UNCHANGED <<sonVars, fetchVars, auxVars>>

\* a faulty variant: a failed read is reported to the client
RunReadPacketReportsError ==
    /\ pc = "read"
    /\ \E e \in ReadErrs :
         /\ readErr' = e
         /\ pc' = "defer"
         /\ out' = Append(out, ErrPacket)
         /\ sequence' = (sequence + 1) % SequenceModulus
    /\ UNCHANGED <<status, cmd, nStmts, stmtIdx, executed, err, retrying, clientMultiStmts,
                   multiStmtMode, allowFallback, inTrans, panicking, closed, cancelFunc>>
    /\ UNCHANGED <<sonVars, fetchVars, auxVars>>

\* lines 1004-1024: readPacket returns a command packet, or fails and Run returns
RunReadPacket ==
    /\ pc = "read"
    /\ \/ \E c \in Commands :
            /\ cmd' = c
            /\ pc' = "cas2"
            /\ out' = <<>>
            /\ executed' = <<>>
            /\ err' = "none"
            /\ nStmts' = 0
            /\ stmtIdx' = 0
            /\ sequence' = (sequence + 1) % SequenceModulus
            /\ readErr' = "nil"
       \/ \E e \in ReadErrs :
            /\ readErr' = e
            /\ pc' = "defer"
            /\ UNCHANGED <<cmd, out, executed, err, nStmts, stmtIdx, sequence>>
    /\ UNCHANGED <<status, retrying, clientMultiStmts, multiStmtMode, allowFallback, inTrans,
                   panicking, closed, cancelFunc>>
    /\ UNCHANGED <<sonVars, fetchVars, auxVars>>

\* a faulty variant: the command is dispatched whether the CAS swapped or not
RunCasDispatchingIgnoresFailure ==
    /\ pc = "cas2"
    /\ status' = CompareAndSwap(status, connStatusReading, connStatusDispatching)[1]
    /\ pc' = "dispatch"
    /\ UNCHANGED <<cmd, nStmts, stmtIdx, retrying, clientMultiStmts, multiStmtMode,
                   allowFallback, inTrans, out, executed, err, panicking, closed,
                   sequence, cancelFunc,
                   readErr>>
    /\ UNCHANGED <<sonVars, fetchVars, auxVars>>

\* line 1026: CAS(Reading -> Dispatching); return when it fails
RunCasDispatching ==
    /\ pc = "cas2"
    /\ LET r == CompareAndSwap(status, connStatusReading, connStatusDispatching)
       IN /\ status' = r[1]
          /\ pc' = IF r[2] THEN "dispatch" ELSE "defer"
    /\ UNCHANGED <<cmd, nStmts, stmtIdx, retrying, clientMultiStmts, multiStmtMode,
                   allowFallback, inTrans, out, executed, err, panicking, closed,
                   sequence, cancelFunc,
                   readErr>>
    /\ UNCHANGED <<sonVars, fetchVars, auxVars>>

(***************************************************************************)
(* Run's deferred function: lines 965-984.                                 *)
(***************************************************************************)
\* a faulty variant: the recovered panic is logged and not reported to the client
RunDeferredSilent ==
    /\ pc = "defer"
    /\ out' = out
    /\ panicking' = FALSE
    /\ closed' = (status # connStatusShutdown)
    /\ pc' = "returned"
    /\ UNCHANGED <<status, cmd, nStmts, stmtIdx, retrying, clientMultiStmts, multiStmtMode,
                   allowFallback, inTrans, executed, err, sequence, cancelFunc,
                   readErr>>
    /\ UNCHANGED <<sonVars, fetchVars, auxVars>>

RunDeferred ==
    /\ pc = "defer"
    /\ out' = IF panicking THEN Append(out, ErrPacket) ELSE out
    /\ sequence' = IF panicking THEN (sequence + 1) % SequenceModulus ELSE sequence
    /\ panicking' = FALSE
    /\ closed' = (status # connStatusShutdown)
    /\ pc' = "returned"
    /\ UNCHANGED <<status, cmd, nStmts, stmtIdx, retrying, clientMultiStmts, multiStmtMode,
                   allowFallback, inTrans, executed, err, cancelFunc,
                   readErr>>
    /\ UNCHANGED <<sonVars, fetchVars, auxVars>>

(***************************************************************************)
(* handleQuery: lines 1716-1792.                                           *)
(***************************************************************************)
\* lines 1746-1758: whether errMultiStatementDisabled is appended to parserWarns
MultiStmtWarn(n) ==
    /\ n > 1
    /\ ~clientMultiStmts
    /\ multiStmtMode \notin {OffInt, OnInt}

\* a faulty variant: the capability test is inverted
MultiStmtRejectedInverted(n) ==
    /\ n > 1
    /\ clientMultiStmts
    /\ multiStmtMode = OffInt

\* lines 1745-1752: the payload is rejected with errMultiStatementDisabled
MultiStmtRejected(n) ==
    /\ n > 1
    /\ ~clientMultiStmts
    /\ multiStmtMode = OffInt

\* lines 1716-1765: parse, the multi-statement check and the point-plan prefetch
handleQuery ==
    /\ pc = "dispatch"
    /\ cmd = "ComQuery"
    /\ \/ \* cc.ctx.Parse fails
          /\ RunAfterDispatch("other", out)
          /\ UNCHANGED <<nStmts, stmtIdx, panicking>>
       \/ \* cc.ctx.Parse panics
          /\ RunPanic(out)
          /\ UNCHANGED <<nStmts, stmtIdx>>
       \/ \E n \in 0..MaxStmts :
            /\ nStmts' = n
            /\ IF n = 0
               THEN /\ RunAfterDispatch("nil", Append(out, OkPacket(0, ctxStatus(inTrans), FALSE)))
                    /\ UNCHANGED <<stmtIdx, panicking>>
               ELSE IF MultiStmtRejected(n)
               THEN /\ RunAfterDispatch("errMultiStatementDisabled", out)
                    /\ UNCHANGED <<stmtIdx, panicking>>
               ELSE \/ \* prefetchPointPlanKeys fails
                       /\ n > 1
                       /\ RunAfterDispatch("other", out)
                       /\ UNCHANGED <<stmtIdx, panicking>>
                    \/ /\ stmtIdx' = 1
                       /\ pc' = "stmt"
                       /\ UNCHANGED <<out, err, panicking, sequence>>
    /\ cancelFunc' = TRUE
    /\ UNCHANGED readErr
    /\ UNCHANGED <<status, cmd, retrying, clientMultiStmts, multiStmtMode, allowFallback,
                   inTrans, executed, closed>>
    /\ UNCHANGED <<sonVars, fetchVars, auxVars>>

\* lines 1766-1790: what the loop does with the return of handleStmt
\* (r, e: handleStmt's retryable and err; o: what is written by now)
handleQueryLoop(r, e, o) ==
    IF e = "nil"
    THEN IF stmtIdx = nStmts
         THEN /\ RunAfterDispatch("nil", o)
              /\ retrying' = FALSE
              /\ UNCHANGED <<stmtIdx, panicking>>
         ELSE /\ stmtIdx' = stmtIdx + 1
              /\ retrying' = FALSE
              /\ out' = o
              /\ sequence' = sequenceAfter(o)
              /\ UNCHANGED <<pc, err, panicking>>
    ELSE IF ~retrying /\ r /\ e = "ErrTiFlashServerTimeout" /\ allowFallback
    THEN \* fall back to TiKV: handleStmt is called again for the same statement
         /\ retrying' = TRUE
         /\ out' = o
         /\ sequence' = sequenceAfter(o)
         /\ UNCHANGED <<pc, err, stmtIdx, panicking>>
    ELSE /\ RunAfterDispatch(e, o)
         /\ retrying' = FALSE
         /\ UNCHANGED <<stmtIdx, panicking>>

(***************************************************************************)
(* handleStmt: lines 1897-1941, with writeResultset and writeChunks.       *)
(***************************************************************************)
\* a faulty variant: the index is compared with len(stmts), not len(stmts)-1
lastStmtOffByOne(i, n) == i = n + 1

\* line 1777: the lastStmt argument
lastStmt(i, n) == i = n

\* lines 1912-1917: the status of the statement's response
stmtStatus(t, last) == ctxStatus(t) \cup (IF last THEN {} ELSE {ServerMoreResultsExists})

\* a faulty variant: the warnings are appended for every statement
stmtWarnEveryStmt(last, n) == MultiStmtWarn(n)

\* lines 1913-1914: the warnings are appended for the last statement only
stmtWarn(last, n) == last /\ MultiStmtWarn(n)

handleStmt ==
    /\ pc = "stmt"
    /\ executed' = Append(executed, stmtIdx)
    /\ \E t \in BOOLEAN :
         /\ inTrans' = t
         /\ LET last == lastStmt(stmtIdx, nStmts)
                st == stmtStatus(t, last)
                w == stmtWarn(last, nStmts)
            IN \/ \* ExecuteStmt panics
                  /\ RunPanic(out)
                  /\ UNCHANGED <<stmtIdx, retrying>>
               \/ \* ExecuteStmt fails: retryable
                  \E e \in ErrKinds : handleQueryLoop(TRUE, e, out)
               \/ \* a result set, and the connection was shut down: ErrQueryInterrupted
                  /\ status = connStatusShutdown
                  /\ handleQueryLoop(FALSE, "other", out)
               \/ \* a result set; the first Next fails: retryable, nothing written
                  /\ status # connStatusShutdown
                  /\ \E e \in ErrKinds : handleQueryLoop(TRUE, e, out)
               \/ \* a result set; a later Next or a write fails: not retryable
                  /\ status # connStatusShutdown
                  /\ \E e \in ErrKinds :
                        handleQueryLoop(FALSE, e, Append(out, PartialResultSet(stmtIdx, st)))
               \/ \* a result set; writeChunks panics past writeResultset's recover
                  /\ status # connStatusShutdown
                  /\ RunPanic(Append(out, PartialResultSet(stmtIdx, st)))
                  /\ UNCHANGED <<stmtIdx, retrying>>
               \/ \* a result set written to its end
                  /\ status # connStatusShutdown
                  /\ handleQueryLoop(FALSE, "nil", Append(out, ResultSetPackets(stmtIdx, st, w)))
               \/ \* no result set: handleQuerySpecial writes OK
                  handleQueryLoop(FALSE, "nil", Append(out, OkPacket(stmtIdx, st, w)))
               \/ \* no result set: handleQuerySpecial fails
                  \E e \in ErrKinds : handleQueryLoop(FALSE, e, out)
    /\ UNCHANGED <<status, cmd, nStmts, clientMultiStmts, multiStmtMode, allowFallback, closed,
                   cancelFunc,
                   readErr>>
    /\ UNCHANGED <<sonVars, fetchVars, auxVars>>

(***************************************************************************)
(* dispatch: lines 1172-1316, the commands other than COM_QUERY.           *)
(***************************************************************************)
dispatch ==
    /\ pc = "dispatch"
    /\ cmd # "ComQuery"
    /\ \/ /\ cmd = "ComQuit"
          /\ RunAfterDispatch("io.EOF", out)
          /\ UNCHANGED panicking
       \/ /\ cmd = "ComPing"
          /\ \/ RunAfterDispatch("nil", Append(out, OkPacket(0, ctxStatus(inTrans), FALSE)))
             \/ RunAfterDispatch("other", out)
          /\ UNCHANGED panicking
       \/ /\ cmd = "ComUnknown"
          /\ RunAfterDispatch("other", out)
          /\ UNCHANGED panicking
       \/ RunPanic(out)
    /\ cancelFunc' = TRUE
    /\ UNCHANGED readErr
    /\ UNCHANGED <<status, cmd, nStmts, stmtIdx, retrying, clientMultiStmts, multiStmtMode,
                   allowFallback, inTrans, executed, closed>>
    /\ UNCHANGED <<sonVars, fetchVars, auxVars>>

(***************************************************************************)
(* ShutdownOrNotify: lines 1073-1086, called by the server at any time.    *)
(***************************************************************************)
\* lines 1074-1076: in a transaction it returns false at once
ShutdownOrNotifyCall ==
    /\ pcS \in {"idle", "done"}
    /\ IF inTrans
       THEN /\ sonRet' = "false"
            /\ sonSeen' = -1
            /\ pcS' = "done"
       ELSE /\ sonRet' = "none"
            /\ sonSeen' = -1
            /\ pcS' = "cas"
    /\ UNCHANGED <<connVars, fetchVars, auxVars>>

\* line 1078: CAS(Reading -> Shutdown); return true when it swapped
ShutdownOrNotifyCas ==
    /\ pcS = "cas"
    /\ LET r == CompareAndSwap(status, connStatusReading, connStatusShutdown)
       IN /\ status' = r[1]
          /\ sonSeen' = status
          /\ IF r[2]
             THEN /\ sonRet' = "true"
                  /\ pcS' = "done"
             ELSE /\ sonRet' = "none"
                  /\ pcS' = "store"
    /\ UNCHANGED <<pc, cmd, nStmts, stmtIdx, retrying, clientMultiStmts, multiStmtMode,
                   allowFallback, inTrans, out, executed, err, panicking, closed,
                   sequence, cancelFunc,
                   readErr>>
    /\ UNCHANGED <<fetchVars, auxVars>>

\* a faulty variant: the status stored is Shutdown
ShutdownOrNotifyStoreShutdown ==
    /\ pcS = "store"
    /\ status' = connStatusShutdown
    /\ sonRet' = "false"
    /\ pcS' = "done"
    /\ UNCHANGED <<pc, cmd, nStmts, stmtIdx, retrying, clientMultiStmts, multiStmtMode,
                   allowFallback, inTrans, out, executed, err, panicking, closed,
                   sequence, cancelFunc,
                   readErr>>
    /\ UNCHANGED <<sonSeen, fetchVars, auxVars>>

\* line 1084: the status is stored as WaitShutdown, whatever it is by now
ShutdownOrNotifyStore ==
    /\ pcS = "store"
    /\ status' = connStatusWaitShutdown
    /\ sonRet' = "false"
    /\ pcS' = "done"
    /\ UNCHANGED <<pc, cmd, nStmts, stmtIdx, retrying, clientMultiStmts, multiStmtMode,
                   allowFallback, inTrans, out, executed, err, panicking, closed,
                   sequence, cancelFunc,
                   readErr>>
    /\ UNCHANGED <<sonSeen, fetchVars, auxVars>>

Run ==
    \/ RunCasReading
    \/ RunLoadStatus
    \/ RunReadPacket
    \/ RunCasDispatching
    \/ dispatch
    \/ handleQuery
    \/ handleStmt
    \/ RunDeferred

ShutdownOrNotify ==
    \/ ShutdownOrNotifyCall
    \/ ShutdownOrNotifyCas
    \/ ShutdownOrNotifyStore

Next == Run \/ ShutdownOrNotify

Spec == Init /\ [][Next]_vars

\* The goroutine of Run is scheduled again and again, its packet read and its
\* dispatch return; a call of ShutdownOrNotify that has begun runs to its end.
FairSpec ==
    /\ Init
    /\ [][Next]_vars
    /\ WF_vars(Run)
    /\ WF_vars(ShutdownOrNotifyCas \/ ShutdownOrNotifyStore)

(***************************************************************************)
(* The cursor fetch: writeResultset with ServerStatusCursorExists, lines   *)
(* 2039-2044, and writeChunksWithFetchSize, lines 2143-2208. The rows of   *)
(* the result set are 1..rsTotal, in the order the executor produces them. *)
(***************************************************************************)
\* the rows lo..hi as a sequence
Rows(lo, hi) == [k \in 1..(hi - lo + 1) |-> lo + k - 1]

\* the first n elements of q, and the rest
Take(q, n) == SubSeq(q, 1, n)
Drop(q, n) == SubSeq(q, n + 1, Len(q))

\* a faulty variant: the EOF packet carries the session's status only
eofStatusOfSessionOnly(serverStatus) == ctxStatus(inTrans)

\* writeEOF(serverStatus): lines 1448-1450, the status of the EOF packet
eofStatus(serverStatus) == ctxStatus(inTrans) \cup serverStatus

\* one fetch response: the rows written, then the EOF packet with its status;
\* failed: ended by an error, with no EOF
FetchResponse(rows, st) == [rows |-> rows, status |-> st, failed |-> FALSE]
FailedFetch(rows) == [rows |-> rows, status |-> {}, failed |-> TRUE]

\* a faulty variant: the cursor-exists bit is left set
noRowStatusKeepsCursor(serverStatus) == serverStatus \cup {ServerStatusLastRowSend}

\* lines 2162-2169: the status sent when there is no row to send
noRowStatus(serverStatus) ==
    (serverStatus \ {ServerStatusCursorExists}) \cup {ServerStatusLastRowSend}

\* a faulty variant: the slice kept for the next fetch starts one row late
restRowsOffByOne(rows, n) == IF n < Len(rows) THEN Drop(rows, n + 1) ELSE <<>>

\* lines 2171-2180: the rows sent now, and the rows stored for the next fetch
curRows(rows, n) == IF n < Len(rows) THEN Take(rows, n) ELSE rows
restRows(rows, n) == IF n < Len(rows) THEN Drop(rows, n) ELSE <<>>

\* line 2144: a COM_STMT_FETCH arrives; fetchedRows := rs.GetFetchedRows()
FetchBegin ==
    /\ fpc = "idle"
    /\ ~rsClosed
    /\ \E f \in clientFetchSizes : fetchSize' = f
    /\ fetchedRows' = rsStored
    /\ fpc' = "loop"
    /\ UNCHANGED <<rsTotal, rsPos, rsDone, rsStored, rsClosed, fetchOut, nextFails, writeFails,
                   clientFetchSizes>>
    /\ UNCHANGED <<connVars, sonVars, auxVars>>

\* lines 2145-2160: one round of the loop, one call of rs.Next
FetchNext ==
    /\ fpc = "loop"
    /\ Len(fetchedRows) < fetchSize
    /\ \/ \* Next fails: the fetch returns the error, the rows pulled are dropped
          /\ nextFails + writeFails < MaxFailures
          /\ nextFails' = nextFails + 1
          /\ fetchOut' = Append(fetchOut, FailedFetch(<<>>))
          /\ fetchedRows' = <<>>
          /\ fpc' = "idle"
          /\ UNCHANGED <<rsPos, rsDone>>
       \/ \* Next fills the chunk with n rows
          \E n \in 1..MaxChunkRows :
            /\ rsPos + n <= rsTotal
            /\ rsPos' = rsPos + n
            /\ fetchedRows' = fetchedRows \o Rows(rsPos + 1, rsPos + n)
            /\ UNCHANGED <<rsDone, fpc, fetchOut, nextFails>>
       \/ \* Next leaves the chunk empty: the result set is exhausted
          /\ rsPos = rsTotal
          /\ rsDone' = TRUE
          /\ fpc' = "write"
          /\ UNCHANGED <<rsPos, fetchedRows, fetchOut, nextFails>>
    /\ UNCHANGED <<rsTotal, rsStored, rsClosed, fetchSize, writeFails, clientFetchSizes>>
    /\ UNCHANGED <<connVars, sonVars, auxVars>>

\* lines 2162-2207: after the loop
FetchWrite ==
    /\ \/ fpc = "write"
       \/ fpc = "loop" /\ Len(fetchedRows) >= fetchSize
    /\ IF Len(fetchedRows) = 0
       THEN /\ rsClosed' = TRUE
            /\ fetchOut' = Append(fetchOut,
                    FetchResponse(<<>>, eofStatus(noRowStatus({ServerStatusCursorExists}))))
            /\ UNCHANGED <<rsStored, writeFails>>
       ELSE /\ rsStored' = restRows(fetchedRows, fetchSize)
            /\ \/ /\ fetchOut' = Append(fetchOut,
                        FetchResponse(curRows(fetchedRows, fetchSize),
                                      eofStatus({ServerStatusCursorExists})))
                  /\ UNCHANGED writeFails
               \/ \* dumpBinaryRow or writePacket fails at row k+1
                  /\ nextFails + writeFails < MaxFailures
                  /\ writeFails' = writeFails + 1
                  /\ \E k \in 0..(Len(curRows(fetchedRows, fetchSize)) - 1) :
                        fetchOut' = Append(fetchOut,
                            FailedFetch(Take(curRows(fetchedRows, fetchSize), k)))
            /\ UNCHANGED rsClosed
    /\ fetchedRows' = <<>>
    /\ fpc' = "idle"
    /\ UNCHANGED <<rsTotal, rsPos, rsDone, fetchSize, nextFails, clientFetchSizes>>
    /\ UNCHANGED <<connVars, sonVars, auxVars>>

writeChunksWithFetchSize == FetchBegin \/ FetchNext \/ FetchWrite

\* a connection that has executed a statement with a cursor and is fetching
ConnOfCursor ==
    /\ status = connStatusDispatching
    /\ pc = "dispatch"
    /\ cmd = "ComStmtFetch"
    /\ nStmts = 0
    /\ stmtIdx = 0
    /\ retrying = FALSE
    /\ clientMultiStmts = FALSE
    /\ multiStmtMode = OffInt
    /\ allowFallback = FALSE
    /\ inTrans \in BOOLEAN
    /\ out = <<>>
    /\ executed = <<>>
    /\ err = "none"
    /\ panicking = FALSE
    /\ closed = FALSE
    /\ sequence = 0
    /\ cancelFunc = FALSE
    /\ readErr = "nil"
    /\ pcS = "idle"
    /\ sonSeen = -1
    /\ sonRet = "none"

CursorOpened(n, sizes) ==
    /\ rsTotal = n
    /\ rsPos = 0
    /\ rsDone = FALSE
    /\ rsStored = <<>>
    /\ rsClosed = FALSE
    /\ fpc = "idle"
    /\ fetchSize = 0
    /\ fetchedRows = <<>>
    /\ fetchOut = <<>>
    /\ nextFails = 0
    /\ writeFails = 0
    /\ clientFetchSizes = sizes

\* cursors over every result set of up to MaxRows rows, fetched with any sizes
InitFetch == NoLoadData /\ ConnOfCursor /\ HandshakeDone /\ NoStmt /\ NoCollation /\ \E n \in 0..MaxRows : CursorOpened(n, 1..MaxFetchSize)

SpecFetch == InitFetch /\ [][writeChunksWithFetchSize]_vars

\* the cursor of 25 rows fetched 10 rows at a time
InitFetch25 == NoLoadData /\ ConnOfCursor /\ HandshakeDone /\ NoStmt /\ NoCollation /\ CursorOpened(25, {10})

SpecFetch25 == InitFetch25 /\ [][writeChunksWithFetchSize]_vars

(***************************************************************************)
(* handshake: lines 250-301, with writeInitialHandshake (328-386),         *)
(* readOptionalSSLRequestAndHandshakeResponse (602-706), handleAuthPlugin  *)
(* (708-733), checkAuthPlugin (833-876), authSwitchRequest (215-245),      *)
(* authSha (735-761), openSessionAndDoAuth (796-830), initConnect (921-958)*)
(***************************************************************************)
\* the plugin names a client may send, "other" standing for any unknown name
ClientPlugins == {"", AuthNativePassword, AuthCachingSha2Password, AuthSocket, "other"}

\* the plugin an account may be configured with, "" when none is set
UserPlugins == {"", AuthNativePassword, AuthCachingSha2Password, AuthSocket}

\* an entry of hsLog
Ev(k, s, p) == [k |-> k, salt |-> s, plugin |-> p]

\* the entries of hsLog that are packets on the wire
PacketKinds == {"writeGreeting", "writeAuthSwitch", "writeShaCommand", "writeErr", "writeOK", "read"}
PacketsIn(log) == Cardinality({i \in 1..Len(log) : log[i].k \in PacketKinds})

\* the state of the connection that handshake leaves alone
ConnFrame ==
    UNCHANGED <<status, pc, cmd, nStmts, stmtIdx, retrying, clientMultiStmts, multiStmtMode,
                allowFallback, inTrans, out, executed, err, panicking, closed, cancelFunc, readErr,
                sonVars, fetchVars, chunkVars, collVars, loadVars>>

\* the same, for the steps of init_connect
InitConnectFrame == ConnFrame /\ UNCHANGED <<data, respHeaderOf>>

\* the same, for the steps that read the client's response
ResponseFrame == ConnFrame /\ UNCHANGED <<icStmts, icRows>>

\* the same, for the other steps
HandshakeFrame == ConnFrame /\ UNCHANGED <<icStmts, icRows, data, respHeaderOf>>

\* handshake goes on at position p with log written, read and called
hsStep(log, p) ==
    /\ hsLog' = log
    /\ sequence' = (sequence + PacketsIn(log) - PacketsIn(hsLog)) % SequenceModulus
    /\ hpc' = p
    /\ UNCHANGED herr

\* handshake returns e with no packet for it
hsReturn(log, e) ==
    /\ hsLog' = log
    /\ sequence' = (sequence + PacketsIn(log) - PacketsIn(hsLog)) % SequenceModulus
    /\ hpc' = "done"
    /\ herr' = e

\* a faulty variant: the error is returned and not reported
hsFailSilent(log, e) == hsReturn(log, e)

\* lines 260-266: readOptionalSSLRequestAndHandshakeResponse returned e;
\* writeError, then handshake returns e
hsFail(log, e) == hsReturn(Append(log, Ev("writeErr", 0, "")), e)

\* the connection newClientConn and the server hand to handshake
BeforeHandshake ==
    /\ hpc = "greeting"
    /\ hsLog = <<>>
    /\ salt \in 1..2
    /\ tlsConfig \in BOOLEAN
    /\ requireSecureTransport \in BOOLEAN
    /\ isUnixSocket \in BOOLEAN
    /\ tlsConn = FALSE
    /\ ctxOpen = FALSE
    /\ isOldVersion = FALSE
    /\ respCapability = {}
    /\ respAuthPlugin = ""
    /\ respAuth = ""
    /\ ccAuthPlugin = AuthNativePassword
    /\ userplugin \in UserPlugins
    /\ herr = "none"
    /\ authUser = <<>>
    /\ icStmts = 0
    /\ icRows = 0
    /\ data = 0
    /\ respHeaderOf = 0

\* lines 251-258 and 328-386: a failure here returns with no error packet
writeInitialHandshake ==
    /\ hpc = "greeting"
    /\ \/ \* openSession, GetGlobalSystemVar, cc.ctx.Close, writePacket or flush fails
          /\ hsReturn(hsLog, "greeting failed")
          /\ UNCHANGED ccAuthPlugin
       \/ \E defAuthPlugin \in {AuthNativePassword, AuthCachingSha2Password} :
            /\ ccAuthPlugin' = defAuthPlugin
            /\ hsStep(Append(hsLog, Ev("writeGreeting", salt, defAuthPlugin)), "response")
    /\ ctxOpen' = FALSE
    /\ UNCHANGED <<salt, tlsConfig, requireSecureTransport, isUnixSocket, tlsConn, isOldVersion,
                   respCapability, respAuthPlugin, respAuth, userplugin, authUser>>
    /\ HandshakeFrame

\* the capability a header parser leaves in resp.Capability
\* (old: the 16 bits of the packet, and ClientProtocol41 set at line 441)
HeaderCapability(old, ssl, pa) ==
    {ClientProtocol41} \cup (IF ssl THEN {ClientSSL} ELSE {})
                       \cup (IF pa /\ ~old THEN {ClientPluginAuth} ELSE {})

\* the first packet read, with the ClientSSL bit of its header
FirstPacket(ssl) == Ev("read", 0, IF ssl THEN ClientSSL ELSE "")

\* a faulty variant: ClientSSL with no TLS configuration is an error
readHandshakeResponseStrictSSL ==
    /\ hpc = "response"
    /\ \E old \in BOOLEAN, ssl \in BOOLEAN, pa \in BOOLEAN :
         LET log == Append(hsLog, FirstPacket(ssl))
         IN /\ isOldVersion' = old
            /\ respCapability' = HeaderCapability(old, ssl, pa)
            /\ data' = 1
            /\ respHeaderOf' = 1
            /\ IF ClientSSL \in respCapability'
               THEN IF tlsConfig THEN hsStep(log, "tls") ELSE hsFail(log, "tls failed")
               ELSE IF requireSecureTransport
               THEN hsFail(log, "errSecureTransportRequired")
               ELSE hsStep(log, "body")
    /\ UNCHANGED <<salt, tlsConfig, requireSecureTransport, isUnixSocket, tlsConn, ctxOpen,
                   respAuthPlugin, respAuth, ccAuthPlugin, userplugin, authUser>>
    /\ ResponseFrame

\* lines 604-662: the first packet, its header, and where it leads
readHandshakeResponse ==
    /\ hpc = "response"
    /\ \/ \* readPacket fails
          /\ hsFail(hsLog, "read failed")
          /\ UNCHANGED <<isOldVersion, respCapability, data, respHeaderOf>>
       \/ \* len(data) < 2, or the header parser finds the packet too short
          /\ hsFail(Append(hsLog, Ev("read", 0, "")), "ErrMalformPacket")
          /\ data' = 1
          /\ UNCHANGED <<isOldVersion, respCapability, respHeaderOf>>
       \/ \E old \in BOOLEAN, ssl \in BOOLEAN, pa \in BOOLEAN :
            LET log == Append(hsLog, FirstPacket(ssl))
            IN /\ isOldVersion' = old
               /\ respCapability' = HeaderCapability(old, ssl, pa)
               /\ data' = 1
               /\ respHeaderOf' = 1
               /\ IF ClientSSL \in respCapability'
                  THEN hsStep(log, IF tlsConfig THEN "tls" ELSE "body")
                  ELSE IF requireSecureTransport
                  THEN hsFail(log, "errSecureTransportRequired")
                  ELSE hsStep(log, "body")
    /\ UNCHANGED <<salt, tlsConfig, requireSecureTransport, isUnixSocket, tlsConn, ctxOpen,
                   respAuthPlugin, respAuth, ccAuthPlugin, userplugin, authUser>>
    /\ ResponseFrame

\* a faulty variant: after the upgrade the response is parsed from the first packet
upgradeToTLSKeepsFirstPacket ==
    /\ hpc = "tls"
    /\ LET tls == Append(hsLog, Ev("tls", 0, ""))
           log == Append(tls, Ev("read", 0, ""))
       IN \/ /\ hsFail(hsLog, "tls failed")
             /\ UNCHANGED tlsConn
          \/ /\ tlsConn' = TRUE
             /\ hsFail(tls, "read failed")
          \/ /\ tlsConn' = TRUE
             /\ hsFail(log, "ErrMalformPacket")
          \/ /\ tlsConn' = TRUE
             /\ hsStep(log, "body")
    /\ UNCHANGED <<salt, tlsConfig, requireSecureTransport, isUnixSocket, ctxOpen, isOldVersion,
                   respAuthPlugin, respAuth, ccAuthPlugin, userplugin, authUser>>
    /\ UNCHANGED <<respCapability, data, respHeaderOf>>
    /\ ResponseFrame

\* lines 641-658: the packet was an SSLRequest
upgradeToTLS ==
    /\ hpc = "tls"
    /\ LET tls == Append(hsLog, Ev("tls", 0, ""))
           log == Append(tls, Ev("read", 0, ""))
       IN \/ \* tlsConn.Handshake fails
             /\ hsFail(hsLog, "tls failed")
             /\ UNCHANGED <<tlsConn, respCapability, data, respHeaderOf>>
          \/ \* readPacket fails
             /\ tlsConn' = TRUE
             /\ hsFail(tls, "read failed")
             /\ UNCHANGED <<respCapability, data, respHeaderOf>>
          \/ \* the header parser finds the packet too short
             /\ tlsConn' = TRUE
             /\ data' = 2
             /\ hsFail(log, "ErrMalformPacket")
             /\ UNCHANGED <<respCapability, respHeaderOf>>
          \/ \E ssl \in BOOLEAN, pa \in BOOLEAN :
               /\ tlsConn' = TRUE
               /\ data' = 2
               /\ respHeaderOf' = 2
               /\ respCapability' = HeaderCapability(isOldVersion, ssl, pa)
               /\ hsStep(log, "body")
    /\ UNCHANGED <<salt, tlsConfig, requireSecureTransport, isUnixSocket, ctxOpen, isOldVersion,
                   respAuthPlugin, respAuth, ccAuthPlugin, userplugin, authUser>>
    /\ ResponseFrame

\* lines 664-679: the rest of the packet read last
parseHandshakeResponseBody ==
    /\ hpc = "body"
    /\ \/ \* the body parser recovers from an index out of range
          /\ hsFail(hsLog, "ErrMalformPacket")
          /\ UNCHANGED <<respAuthPlugin, respAuth>>
       \/ \E name \in ClientPlugins :
            /\ respAuthPlugin' = IF ClientPluginAuth \in respCapability /\ ~isOldVersion
                                 THEN name ELSE ""
            /\ respAuth' = IF data = 2 THEN "packet 2" ELSE "packet 1"
            /\ hsStep(hsLog, "authPlugin")
    /\ UNCHANGED <<salt, tlsConfig, requireSecureTransport, isUnixSocket, tlsConn, ctxOpen,
                   isOldVersion, respCapability, ccAuthPlugin, userplugin, authUser>>
    /\ HandshakeFrame

\* lines 735-761: one fast-auth exchange; the response becomes resp.Auth
authSha ==
    /\ hpc \in {"authSha in handleAuthPlugin", "authSha"}
    /\ LET cmdLog == Append(hsLog, Ev("writeShaCommand", 0, ""))
           log == Append(cmdLog, Ev("read", 0, ""))
       IN \/ \* writePacket or flush fails
             /\ hsFail(hsLog, "write failed")
             /\ UNCHANGED respAuth
          \/ \* readPacket fails
             /\ hsFail(cmdLog, "read failed")
             /\ UNCHANGED respAuth
          \/ /\ respAuth' = "sha response"
             /\ hsStep(log, IF hpc = "authSha" THEN "doAuth" ELSE "plugin")
    /\ UNCHANGED <<salt, tlsConfig, requireSecureTransport, isUnixSocket, tlsConn, ctxOpen,
                   isOldVersion, respCapability, respAuthPlugin, ccAuthPlugin, userplugin,
                   authUser>>
    /\ HandshakeFrame

\* a faulty variant: the switch request carries a salt of its own
authSwitchRequestFreshSalt(plugin) == Ev("writeAuthSwitch", salt + 1, plugin)

\* lines 215-222: the AuthSwitchRequest packet
authSwitchRequest(plugin) == Ev("writeAuthSwitch", salt, plugin)

\* lines 866-873: whether checkAuthPlugin asks the client to switch
needAuthSwitch == (ccAuthPlugin # userplugin) \/ (ccAuthPlugin # respAuthPlugin)

\* line 718: where handleAuthPlugin goes with resp.AuthPlugin
afterCheckAuthPlugin(plugin) ==
    IF plugin = AuthCachingSha2Password THEN "authSha in handleAuthPlugin" ELSE "plugin"

\* lines 708-733 and 833-876: checkAuthPlugin, whose error is logged and dropped
handleAuthPlugin ==
    /\ hpc = "authPlugin"
    /\ IF ClientPluginAuth \notin respCapability
       THEN /\ hsStep(hsLog, "plugin")
            /\ UNCHANGED <<ctxOpen, respAuthPlugin, respAuth, ccAuthPlugin>>
       ELSE \/ \* openSession fails, in OpenCtx or in checkConnectionCount
               /\ ~ctxOpen
               /\ ctxOpen' \in BOOLEAN
               /\ hsStep(hsLog, afterCheckAuthPlugin(respAuthPlugin))
               /\ UNCHANGED <<respAuthPlugin, respAuth, ccAuthPlugin>>
            \/ \* AuthPluginForUser fails
               /\ ctxOpen' = TRUE
               /\ hsStep(hsLog, afterCheckAuthPlugin(respAuthPlugin))
               /\ UNCHANGED <<respAuthPlugin, respAuth, ccAuthPlugin>>
            \/ \* the account uses auth_socket; user.LookupId fails or not
               /\ userplugin = AuthSocket
               /\ ctxOpen' = TRUE
               /\ respAuthPlugin' = AuthSocket
               /\ respAuth' \in {respAuth, "socket user"}
               /\ hsStep(hsLog, afterCheckAuthPlugin(AuthSocket))
               /\ UNCHANGED ccAuthPlugin
            \/ \* the account has no plugin
               /\ userplugin = ""
               /\ ctxOpen' = TRUE
               /\ respAuthPlugin' = AuthNativePassword
               /\ hsStep(hsLog, afterCheckAuthPlugin(AuthNativePassword))
               /\ UNCHANGED <<respAuth, ccAuthPlugin>>
            \/ \* authSwitchRequest
               /\ userplugin \notin {AuthSocket, ""}
               /\ needAuthSwitch
               /\ ctxOpen' = TRUE
               /\ LET req == Append(hsLog, authSwitchRequest(userplugin))
                  IN \/ \* writePacket or flush fails
                        /\ hsStep(hsLog, afterCheckAuthPlugin(respAuthPlugin))
                        /\ UNCHANGED <<respAuthPlugin, respAuth, ccAuthPlugin>>
                     \/ \* readPacket fails
                        /\ hsStep(req, afterCheckAuthPlugin(respAuthPlugin))
                        /\ UNCHANGED <<respAuthPlugin, respAuth, ccAuthPlugin>>
                     \/ \* the response, which replaces resp.Auth unless it is empty
                        /\ ccAuthPlugin' = userplugin
                        /\ respAuthPlugin' = userplugin
                        /\ respAuth' \in {respAuth, "switch response"}
                        /\ hsStep(Append(req, Ev("read", 0, "")), afterCheckAuthPlugin(userplugin))
            \/ \* the plugins agree
               /\ userplugin \notin {AuthSocket, ""}
               /\ ~needAuthSwitch
               /\ ctxOpen' = TRUE
               /\ hsStep(hsLog, afterCheckAuthPlugin(respAuthPlugin))
               /\ UNCHANGED <<respAuthPlugin, respAuth, ccAuthPlugin>>
    /\ UNCHANGED <<salt, tlsConfig, requireSecureTransport, isUnixSocket, tlsConn, isOldVersion,
                   respCapability, userplugin, authUser>>
    /\ HandshakeFrame

\* lines 689-698: the switch on resp.AuthPlugin after handleAuthPlugin
switchAuthPlugin ==
    /\ hpc = "plugin"
    /\ IF respAuthPlugin = AuthCachingSha2Password
       THEN hsStep(hsLog, "authSha")
       ELSE IF respAuthPlugin \in {AuthNativePassword, AuthSocket}
       THEN hsStep(hsLog, "doAuth")
       ELSE hsFail(hsLog, "Unknown auth plugin")
    /\ UNCHANGED <<salt, tlsConfig, requireSecureTransport, isUnixSocket, tlsConn, ctxOpen,
                   isOldVersion, respCapability, respAuthPlugin, respAuth, ccAuthPlugin,
                   userplugin, authUser>>
    /\ HandshakeFrame

\* lines 796-830: what openSessionAndDoAuth can return for authPlugin, the
\* authenticator deciding on its own whether the credentials are accepted
openSessionAndDoAuth(authPlugin) ==
    (IF ctxOpen THEN {} ELSE {"openSession failed"})
    \cup (IF isUnixSocket THEN {} ELSE {"errAccessDenied: PeerHost"})
    \cup (IF ~isUnixSocket /\ authPlugin = AuthSocket
          THEN {"errAccessDeniedNoPassword"}
          ELSE {"errAccessDenied", "useDB failed", "nil"})

\* lines 700-705: the credentials are verified against cc.salt
verifyCredentials ==
    /\ hpc = "doAuth"
    /\ \E e \in openSessionAndDoAuth(respAuthPlugin) :
         /\ ctxOpen' \in (IF e = "openSession failed" THEN BOOLEAN ELSE {TRUE})
         /\ LET log == IF e \in {"errAccessDenied", "useDB failed", "nil"}
                       THEN Append(hsLog, Ev("auth", salt, respAuthPlugin))
                       ELSE hsLog
            IN IF e = "nil"
               THEN /\ authUser' = <<userplugin>>
                    /\ hsStep(log, "initConnect")
               ELSE /\ authUser' = <<>>
                    /\ hsFail(log, e)
    /\ UNCHANGED <<salt, tlsConfig, requireSecureTransport, isUnixSocket, tlsConn, isOldVersion,
                   respCapability, respAuthPlugin, respAuth, ccAuthPlugin, userplugin>>
    /\ HandshakeFrame

\* the rest of the handshake state, which init_connect leaves alone
InitConnectKeeps ==
    UNCHANGED <<salt, tlsConfig, requireSecureTransport, isUnixSocket, tlsConn, ctxOpen,
                isOldVersion, respCapability, respAuthPlugin, respAuth, ccAuthPlugin,
                userplugin, authUser>>

\* lines 268-277: initConnect returned an error; handshake writes
\* errNewAbortingConnection and returns it
initConnectFails ==
    hsFail(Append(hsLog, Ev("initConnect", 0, "failed")), "errNewAbortingConnection")

\* lines 922-934: the variable is read and parsed
initConnect ==
    /\ hpc = "initConnect"
    /\ \/ \* GetGlobalSysVar or Parse fails
          initConnectFails /\ UNCHANGED <<icStmts, icRows>>
       \/ \* init_connect is empty, or the user has CONNECTION_ADMIN
          hsStep(hsLog, "ok") /\ UNCHANGED <<icStmts, icRows>>
       \/ \E n \in 1..MaxInitStmts :
            /\ icStmts' = n
            /\ UNCHANGED icRows
            /\ hsStep(hsLog, "icExec")
    /\ InitConnectKeeps
    /\ InitConnectFrame

\* lines 935-939 and 956-957: the next statement is executed, or all were
initConnectExecuteStmt ==
    /\ hpc = "icExec"
    /\ IF icStmts = 0
       THEN /\ hsStep(Append(hsLog, Ev("initConnect", 0, "complete")), "ok")
            /\ UNCHANGED <<icStmts, icRows>>
       ELSE \/ \* ExecuteStmt fails
               initConnectFails /\ UNCHANGED <<icStmts, icRows>>
            \/ \* rs == nil
               /\ icStmts' = icStmts - 1
               /\ UNCHANGED icRows
               /\ hsStep(hsLog, "icExec")
            \/ \E n \in 0..MaxInitRows :
                 /\ icRows' = n
                 /\ UNCHANGED icStmts
                 /\ hsStep(hsLog, "icNext")
    /\ InitConnectKeeps
    /\ InitConnectFrame

initConnectNextStopsAfterOneChunk ==
    /\ hpc = "icNext"
    /\ \/ initConnectFails /\ UNCHANGED <<icStmts, icRows>>
       \/ \E k \in (IF icRows = 0 THEN {0} ELSE 1..icRows) :
            /\ icRows' = icRows - k
            /\ icStmts' = icStmts - 1
            /\ hsStep(hsLog, "icExec")
    /\ InitConnectKeeps
    /\ InitConnectFrame

\* lines 942-954: the result set is drained chunk by chunk and closed; no
\* row goes to the client
initConnectNext ==
    /\ hpc = "icNext"
    /\ \/ \* rs.Next fails
          initConnectFails /\ UNCHANGED <<icStmts, icRows>>
       \/ \E k \in (IF icRows = 0 THEN {0} ELSE 1..icRows) :
            IF k > 0
            THEN /\ icRows' = icRows - k
                 /\ UNCHANGED icStmts
                 /\ hsStep(hsLog, "icNext")
            ELSE \/ \* rs.Close fails
                    initConnectFails /\ UNCHANGED <<icStmts, icRows>>
                 \/ /\ icStmts' = icStmts - 1
                    /\ UNCHANGED icRows
                    /\ hsStep(hsLog, "icExec")
    /\ InitConnectKeeps
    /\ InitConnectFrame

\* lines 279-300: the OK packet; the sequence is reset whatever writePacket returns
writeHandshakeOK ==
    /\ hpc = "ok"
    /\ \/ \* writePacket fails
          /\ hsLog' = hsLog
          /\ herr' = "OK write failed"
       \/ \* flush fails
          /\ hsLog' = Append(hsLog, Ev("writeOK", 0, ""))
          /\ herr' = "OK flush failed"
       \/ /\ hsLog' = Append(hsLog, Ev("writeOK", 0, ""))
          /\ herr' = "nil"
    /\ sequence' = 0
    /\ hpc' = "done"
    /\ UNCHANGED <<salt, tlsConfig, requireSecureTransport, isUnixSocket, tlsConn, ctxOpen,
                   isOldVersion, respCapability, respAuthPlugin, respAuth, ccAuthPlugin,
                   userplugin, authUser>>
    /\ HandshakeFrame

\* lines 2231-2254: COM_CHANGE_USER names another account; the plugin handed to
\* openSessionAndDoAuth is the empty string
handleChangeUser ==
    /\ hpc = "done"
    /\ herr = "nil"
    /\ \E account \in UserPlugins :
         /\ userplugin' = account
         /\ \/ \* the packet is malformed
               UNCHANGED authUser
            \/ \E e \in openSessionAndDoAuth("") :
                 authUser' = IF e = "nil" THEN <<account>> ELSE <<>>
    /\ UNCHANGED <<hpc, hsLog, salt, tlsConfig, requireSecureTransport, isUnixSocket, tlsConn,
                   ctxOpen, isOldVersion, respCapability, respAuthPlugin, respAuth, ccAuthPlugin,
                   herr>>
    /\ UNCHANGED sequence
    /\ HandshakeFrame

handshake ==
    \/ writeInitialHandshake
    \/ readHandshakeResponse
    \/ upgradeToTLS
    \/ parseHandshakeResponseBody
    \/ handleAuthPlugin
    \/ authSha
    \/ switchAuthPlugin
    \/ verifyCredentials
    \/ initConnect
    \/ initConnectExecuteStmt
    \/ initConnectNext
    \/ writeHandshakeOK

\* the connection handed to handshake: Run has not begun
ConnOfHandshake ==
    /\ status = connStatusDispatching
    /\ pc = "handshake"
    /\ cmd = "none"
    /\ nStmts = 0
    /\ stmtIdx = 0
    /\ retrying = FALSE
    /\ clientMultiStmts = FALSE
    /\ multiStmtMode = OffInt
    /\ allowFallback = FALSE
    /\ inTrans = FALSE
    /\ out = <<>>
    /\ executed = <<>>
    /\ err = "none"
    /\ panicking = FALSE
    /\ closed = FALSE
    /\ sequence = 0
    /\ cancelFunc = FALSE
    /\ readErr = "nil"
    /\ pcS = "idle"
    /\ sonSeen = -1
    /\ sonRet = "none"

InitHandshake == NoLoadData /\ ConnOfHandshake /\ NoCursor /\ BeforeHandshake /\ NoStmt /\ NoCollation

NextHandshake == handshake \/ handleChangeUser

SpecHandshake == InitHandshake /\ [][NextHandshake]_vars

(***************************************************************************)
(* One statement, step by step: handleStmt (1897-1941), writeResultset     *)
(* (2021-2051), writeColumnInfo (2053-2068) and writeChunks (2073-2137).   *)
(***************************************************************************)
\* handleStmt returns (r, e)
stmtReturn(r, e) ==
    /\ wRetryable' = r
    /\ wErr' = e
    /\ wpc' = "done"

StmtFrame == UNCHANGED <<connVars, sonVars, fetchVars, hsVars, collVars, loadVars>>

\* lines 1897-1926: ExecuteStmt, then the route the result takes
handleStmtExecute ==
    /\ wpc = "exec"
    /\ \/ \* ExecuteStmt fails
          stmtReturn(TRUE, "ExecuteStmt")
       \/ \* a result set
          IF status = connStatusShutdown
          THEN stmtReturn(FALSE, "ErrQueryInterrupted")
          ELSE /\ wpc' = IF wCursor THEN "cursor" ELSE "next"
               /\ UNCHANGED <<wRetryable, wErr>>
       \/ \* no result set
          /\ ~wCursor
          /\ wpc' = "special"
          /\ UNCHANGED <<wRetryable, wErr>>
    /\ UNCHANGED <<wCursor, firstNext, gotColumnInfo, nextCalls, rowCount, wWritten>>
    /\ StmtFrame

\* lines 1929-1940: handleQuerySpecial
handleQuerySpecial ==
    /\ wpc = "special"
    /\ \/ /\ wWritten' \in {wWritten, wWritten + 1}
          /\ stmtReturn(FALSE, "handleQuerySpecial")
       \/ /\ wWritten' = wWritten + 1
          /\ stmtReturn(FALSE, "nil")
    /\ UNCHANGED <<wCursor, firstNext, gotColumnInfo, nextCalls, rowCount>>
    /\ StmtFrame

\* lines 2039-2044: the cursor route of writeResultset
writeResultsetCursor ==
    /\ wpc = "cursor"
    /\ \/ /\ wWritten' \in {wWritten, wWritten + 1}
          /\ stmtReturn(FALSE, "writeChunksWithFetchSize")
       \/ /\ wWritten' = wWritten + 1
          /\ wpc' = "flush"
          /\ UNCHANGED <<wRetryable, wErr>>
    /\ UNCHANGED <<wCursor, firstNext, gotColumnInfo, nextCalls, rowCount>>
    /\ StmtFrame

\* where writeChunks goes once Next has returned a chunk of n rows
afterNext(n) == IF ~gotColumnInfo THEN "columns" ELSE IF n = 0 THEN "eof" ELSE "rows"

\* a faulty variant: firstNext is not cleared after the first call
writeChunksNextKeepsFirst ==
    /\ wpc = "next"
    /\ nextCalls < MaxNextCalls
    /\ nextCalls' = nextCalls + 1
    /\ \/ /\ stmtReturn(firstNext, "Next")
          /\ UNCHANGED <<firstNext, rowCount>>
       \/ \E n \in 0..(IF nextCalls' = MaxNextCalls THEN 0 ELSE MaxChunkRows) :
            /\ firstNext' = firstNext
            /\ rowCount' = n
            /\ wpc' = afterNext(n)
            /\ UNCHANGED <<wRetryable, wErr>>
    /\ UNCHANGED <<wCursor, gotColumnInfo, wWritten>>
    /\ StmtFrame

\* lines 2082-2101: rs.Next, whose error is retryable when firstNext holds;
\* a memory-exceed panic is turned into runErr by writeResultset (2022-2036)
writeChunksNext ==
    /\ wpc = "next"
    /\ nextCalls < MaxNextCalls
    /\ nextCalls' = nextCalls + 1
    /\ \/ /\ stmtReturn(firstNext, "Next")
          /\ UNCHANGED <<firstNext, rowCount>>
       \/ /\ stmtReturn(FALSE, "memory exceeded")
          /\ UNCHANGED <<firstNext, rowCount>>
       \/ \E n \in 0..(IF nextCalls' = MaxNextCalls THEN 0 ELSE MaxChunkRows) :
            /\ firstNext' = FALSE
            /\ rowCount' = n
            /\ wpc' = afterNext(n)
            /\ UNCHANGED <<wRetryable, wErr>>
    /\ UNCHANGED <<wCursor, gotColumnInfo, wWritten>>
    /\ StmtFrame

\* lines 2102-2110 and 2053-2068: the column count, the columns and an EOF
writeColumnInfo ==
    /\ wpc = "columns"
    /\ \/ /\ wWritten' \in {wWritten, wWritten + 1}
          /\ stmtReturn(FALSE, "writeColumnInfo")
          /\ UNCHANGED gotColumnInfo
       \/ /\ wWritten' = wWritten + 2
          /\ gotColumnInfo' = TRUE
          /\ wpc' = IF rowCount = 0 THEN "eof" ELSE "rows"
          /\ UNCHANGED <<wRetryable, wErr>>
    /\ UNCHANGED <<wCursor, firstNext, nextCalls, rowCount>>
    /\ StmtFrame

\* lines 2117-2131: one row of the chunk is dumped and written
writeChunksRow ==
    /\ wpc = "rows"
    /\ \/ /\ stmtReturn(FALSE, "row")
          /\ UNCHANGED <<rowCount, wWritten>>
       \/ /\ wWritten' = wWritten + 1
          /\ rowCount' = rowCount - 1
          /\ wpc' = IF rowCount' = 0 THEN "next" ELSE "rows"
          /\ UNCHANGED <<wRetryable, wErr>>
    /\ UNCHANGED <<wCursor, firstNext, gotColumnInfo, nextCalls>>
    /\ StmtFrame

\* line 2137: the closing EOF
writeChunksEOF ==
    /\ wpc = "eof"
    /\ \/ /\ stmtReturn(FALSE, "writeEOF")
          /\ UNCHANGED wWritten
       \/ /\ wWritten' = wWritten + 1
          /\ wpc' = "flush"
          /\ UNCHANGED <<wRetryable, wErr>>
    /\ UNCHANGED <<wCursor, firstNext, gotColumnInfo, nextCalls, rowCount>>
    /\ StmtFrame

\* lines 2043 and 2050: writeResultset returns false with what flush returns
writeResultsetFlush ==
    /\ wpc = "flush"
    /\ \/ stmtReturn(FALSE, "flush")
       \/ stmtReturn(FALSE, "nil")
    /\ UNCHANGED <<wCursor, firstNext, gotColumnInfo, nextCalls, rowCount, wWritten>>
    /\ StmtFrame

\* handleStmt is entered for a statement, in cursor mode or not
StmtBegins ==
    /\ wpc = "exec"
    /\ wCursor \in BOOLEAN
    /\ firstNext = TRUE
    /\ gotColumnInfo = FALSE
    /\ nextCalls = 0
    /\ rowCount = 0
    /\ wWritten = 0
    /\ wRetryable = FALSE
    /\ wErr = "none"

InitStmt == NoLoadData /\ ConnOfCursor /\ NoCursor /\ HandshakeDone /\ StmtBegins /\ NoCollation

NextStmt ==
    \/ handleStmtExecute
    \/ handleQuerySpecial
    \/ writeResultsetCursor
    \/ writeChunksNext
    \/ writeColumnInfo
    \/ writeChunksRow
    \/ writeChunksEOF
    \/ writeResultsetFlush

SpecStmt == InitStmt /\ [][NextStmt]_vars

(***************************************************************************)
(* The collation of an expression: expression/collation.go.                *)
(***************************************************************************)
CoercibilityExplicit == 0
CoercibilityNone == 1
CoercibilityImplicit == 2
CoercibilitySysconst == 3
CoercibilityCoercible == 4
CoercibilityNumeric == 5
CoercibilityIgnorable == 6
Coercibilities == CoercibilityExplicit..CoercibilityIgnorable

\* the values of Repertoire: two bits, pure ASCII and extended characters
ASCII == 1
EXTENDED == 2 * ASCII
UNICODE == 3

\* a | b on repertoires
RepertoireOr(a, b) ==
    (IF a % 2 = 1 \/ b % 2 = 1 THEN 1 ELSE 0) + 2 * (IF a \div 2 = 1 \/ b \div 2 = 1 THEN 1 ELSE 0)

\* the names of package charset
CharsetASCII == "ascii"
CharsetLatin1 == "latin1"
CharsetUTF8 == "utf8"
CharsetUTF8MB4 == "utf8mb4"
CharsetGBK == "gbk"
CharsetBin == "binary"
CollationASCII == "ascii_bin"
CollationLatin1 == "latin1_bin"
CollationUTF8 == "utf8_bin"
CollationUTF8MB4 == "utf8mb4_bin"
CollationGBKBin == "gbk_bin"
CollationBin == "binary"

\* charset.GetDefaultCharsetAndCollate()
DefaultCharsetAndCollate == [Charset |-> CharsetUTF8MB4, Collation |-> CollationUTF8MB4]

\* the collations the arguments carry, each with its charset
CharsetOf ==
    [c \in {CollationASCII, CollationLatin1, CollationUTF8, CollationUTF8MB4,
            "utf8mb4_general_ci", "utf8mb4_unicode_ci", CollationGBKBin, "gbk_chinese_ci",
            CollationBin} |->
        CASE c = CollationASCII -> CharsetASCII
          [] c = CollationLatin1 -> CharsetLatin1
          [] c = CollationUTF8 -> CharsetUTF8
          [] c \in {CollationUTF8MB4, "utf8mb4_general_ci", "utf8mb4_unicode_ci"} -> CharsetUTF8MB4
          [] c \in {CollationGBKBin, "gbk_chinese_ci"} -> CharsetGBK
          [] OTHER -> CharsetBin]
Collations == DOMAIN CharsetOf

\* An Expression, by what the derivation reads of it: GetType().Charset,
\* GetType().Collate, Coercibility(), Repertoire(), and value: "column" for an
\* expression that is no *Constant, and for a *Constant the characters of the
\* string it evaluates to: "ascii" all below 0x80, "gbk" some above and all
\* encodable in gbk, "wide" some not encodable in gbk.  A constant of ASCII
\* repertoire has an "ascii" value.
Expression(collate, coer, repe, value) ==
    [Charset |-> CharsetOf[collate], Collate |-> collate, Coer |-> coer, Repe |-> repe,
     value |-> value]

Args ==
    {Expression(c, k, r, v) : c \in Collations, k \in Coercibilities,
                              r \in {ASCII, UNICODE}, v \in {"column"}}
    \cup {Expression(c, k, ASCII, "ascii") : c \in Collations, k \in Coercibilities}
    \cup {Expression(c, k, UNICODE, v) : c \in Collations, k \in Coercibilities,
                                         v \in {"gbk", "wide"}}

\* the arguments of the lists of more than two
CoreArgs ==
    {Expression(c, k, r, "column") :
        c \in {CollationLatin1, CollationGBKBin, "utf8mb4_general_ci", CollationBin},
        k \in {CoercibilityExplicit, CoercibilityImplicit}, r \in {ASCII, EXTENDED, UNICODE}}

ArgLists ==
    UNION {IF n <= 2 THEN [1..n -> Args] ELSE [1..n -> CoreArgs] : n \in 0..MaxArgs}

EvalTypes == {"ETString", "ETInt"}
CharsetInfos ==
    {DefaultCharsetAndCollate, [Charset |-> CharsetGBK, Collation |-> "gbk_chinese_ci"]}

isUnicodeCollation(ch) == ch = CharsetUTF8 \/ ch = CharsetUTF8MB4

isBinCollationOnlyBinary(collate) == collate = CollationBin

isBinCollation(collate) ==
    \/ collate = CollationASCII
    \/ collate = CollationLatin1
    \/ collate = CollationUTF8
    \/ collate = CollationUTF8MB4
    \/ collate = CollationGBKBin

\* a faulty variant: the _bin collation of gbk for every charset
getBinCollationOfGBK(cs) == CollationGBKBin

getBinCollation(cs) ==
    CASE cs = CharsetUTF8 -> CollationUTF8
      [] cs = CharsetUTF8MB4 -> CollationUTF8MB4
      [] cs = CharsetGBK -> CollationGBKBin
      [] OTHER -> CollationUTF8MB4

\* coercibility, dstCharset, dstCollation = arg's
takeArg(d, arg) ==
    [d EXCEPT !.coercibility = arg.Coer, !.dstCharset = arg.Charset,
              !.dstCollation = arg.Collate]

orRepertoireTakesArg(d, arg) == [d EXCEPT !.repertoire = arg.Repe]

\* repertoire |= arg.Repertoire()
orRepertoire(d, arg) == [d EXCEPT !.repertoire = RepertoireOr(d.repertoire, arg.Repe)]

aggBinaryKeepsDst(d, arg) == orRepertoire(d, arg)

\* one of the two collations is binary
aggBinary(d, arg) ==
    orRepertoire(IF \/ d.coercibility > arg.Coer
                    \/ (d.coercibility = arg.Coer /\ arg.Collate = CollationBin)
                 THEN takeArg(d, arg) ELSE d, arg)

cannotConvertKeepsDst(d, arg) == orRepertoire(d, arg)

\* Cannot apply conversion.
cannotConvert(d, arg) ==
    [orRepertoire(d, arg) EXCEPT !.coercibility = CoercibilityNone,
                                 !.dstCharset = CharsetBin,
                                 !.dstCollation = CollationBin,
                                 !.unknownCS = TRUE]

aggDifferentCharsetNeverConverts(d, arg) == cannotConvert(d, arg)

\* the charsets differ
aggDifferentCharset(d, arg) ==
    CASE d.coercibility < arg.Coer ->
            IF \/ arg.Repe = ASCII
               \/ arg.Coer >= CoercibilitySysconst
               \/ isUnicodeCollation(d.dstCharset)
            THEN orRepertoire(d, arg)
            ELSE cannotConvert(d, arg)
      [] d.coercibility = arg.Coer ->
            IF \/ (isUnicodeCollation(d.dstCharset) /\ ~isUnicodeCollation(arg.Charset))
               \/ (d.dstCharset = CharsetUTF8MB4 /\ arg.Charset = CharsetUTF8)
            THEN orRepertoire(d, arg)
            ELSE IF \/ (isUnicodeCollation(arg.Charset) /\ ~isUnicodeCollation(d.dstCharset))
                    \/ (arg.Charset = CharsetUTF8MB4 /\ d.dstCharset = CharsetUTF8)
            THEN orRepertoire(takeArg(d, arg), arg)
            ELSE IF d.repertoire = ASCII /\ arg.Repe # ASCII
            THEN orRepertoire(takeArg(d, arg), arg)
            ELSE IF d.repertoire # ASCII /\ arg.Repe = ASCII
            THEN orRepertoire(d, arg)
            ELSE cannotConvert(d, arg)
      [] d.coercibility > arg.Coer ->
            IF \/ d.repertoire = ASCII
               \/ d.coercibility >= CoercibilitySysconst
               \/ isUnicodeCollation(arg.Charset)
            THEN orRepertoire(takeArg(d, arg), arg)
            ELSE cannotConvert(d, arg)

aggSameCharsetAlwaysDowngrades(d, arg) ==
    orRepertoire([d EXCEPT !.coercibility = CoercibilityNone,
                           !.dstCollation = getBinCollation(arg.Charset),
                           !.dstCharset = arg.Charset], arg)

\* the charsets are the same
aggSameCharset(d, arg) ==
    IF d.coercibility = arg.Coer
    THEN IF d.dstCollation = arg.Collate THEN orRepertoire(d, arg)
         ELSE IF d.coercibility = CoercibilityExplicit THEN [d EXCEPT !.returnedNil = TRUE]
         ELSE IF isBinCollation(d.dstCollation) THEN orRepertoire(d, arg)
         ELSE IF isBinCollation(arg.Collate) THEN orRepertoire(takeArg(d, arg), arg)
         ELSE orRepertoire([d EXCEPT !.coercibility = CoercibilityNone,
                                     !.dstCollation = getBinCollation(arg.Charset),
                                     !.dstCharset = arg.Charset], arg)
    ELSE IF d.coercibility > arg.Coer THEN orRepertoire(takeArg(d, arg), arg)
    ELSE orRepertoire(d, arg)

aggTakesArg(d, arg) == orRepertoire(takeArg(d, arg), arg)

\* one turn of the loop of inferCollation: agg(a, b, c) := agg(agg(a, b), c)
agg(d, arg) ==
    IF d.returnedNil THEN d
    ELSE IF d.dstCollation = CollationBin \/ arg.Collate = CollationBin THEN aggBinary(d, arg)
    ELSE IF d.dstCharset # arg.Charset THEN aggDifferentCharset(d, arg)
    ELSE aggSameCharset(d, arg)

RECURSIVE aggAll(_, _)
\* the locals of inferCollation after the arguments l[1..n]
aggAll(l, n) ==
    IF n = 1
    THEN [coercibility |-> l[1].Coer, dstCharset |-> l[1].Charset,
          dstCollation |-> l[1].Collate, repertoire |-> l[1].Repe,
          unknownCS |-> FALSE, returnedNil |-> FALSE]
    ELSE agg(aggAll(l, n - 1), l[n])

\* a faulty variant: an unknown charset is an error whatever the coercibility
inferCollationNilOnUnknownCS(l) ==
    IF Len(l) = 0
    THEN <<[Coer |-> CoercibilityIgnorable, Repe |-> UNICODE,
            Charset |-> DefaultCharsetAndCollate.Charset,
            Collation |-> DefaultCharsetAndCollate.Collation]>>
    ELSE LET d == aggAll(l, Len(l))
         IN  IF d.returnedNil \/ d.unknownCS
             THEN <<>>
             ELSE <<[Coer |-> d.coercibility, Repe |-> d.repertoire,
                     Charset |-> d.dstCharset, Collation |-> d.dstCollation]>>

\* <<the *ExprCollation>>, or <<>> for nil
inferCollation(l) ==
    IF Len(l) = 0
    THEN <<[Coer |-> CoercibilityIgnorable, Repe |-> UNICODE,
            Charset |-> DefaultCharsetAndCollate.Charset,
            Collation |-> DefaultCharsetAndCollate.Collation]>>
    ELSE LET d == aggAll(l, Len(l))
         IN  IF d.returnedNil \/ (d.unknownCS /\ d.coercibility # CoercibilityExplicit)
             THEN <<>>
             ELSE <<[Coer |-> d.coercibility, Repe |-> d.repertoire,
                     Charset |-> d.dstCharset, Collation |-> d.dstCollation]>>

\* str can convert to dstChs without data loss
isValidString(str, dstChs) ==
    CASE dstChs = CharsetASCII -> str = "ascii"
      [] dstChs \in {CharsetLatin1, CharsetUTF8, CharsetUTF8MB4, CharsetBin} -> TRUE
      [] OTHER -> str \in {"ascii", "gbk"}

\* a faulty variant: only the constants are tested
safeConvertTestsConstantsOnly(c, l) ==
    \A i \in 1..Len(l) :
        \/ l[i].Charset = c.Charset
        \/ l[i].Repe = ASCII
        \/ l[i].value = "column"
        \/ isValidString(l[i].value, c.Charset)

safeConvert(c, l) ==
    \A i \in 1..Len(l) :
        \/ l[i].Charset = c.Charset
        \/ l[i].Repe = ASCII
        \/ IF l[i].value # "column"
           THEN isValidString(l[i].value, c.Charset)
           ELSE ~(/\ l[i].Collate # CharsetBin
                  /\ c.Charset # CharsetBin
                  /\ ~isUnicodeCollation(c.Charset))

illegalMixCollationErr == "IllegalMixCollation"

\* a faulty variant: a Numeric result is not re-coerced to the session's charset
CheckAndDeriveKeepsNumeric(et, ci, l) ==
    LET c == inferCollation(l)
    IN  IF c = <<>> THEN [et |-> <<>>, err |-> illegalMixCollationErr]
        ELSE IF et # "ETString" /\ c[1].Coer = CoercibilityNone
        THEN [et |-> <<>>, err |-> illegalMixCollationErr]
        ELSE IF ~safeConvert(c[1], l)
        THEN [et |-> <<>>, err |-> illegalMixCollationErr]
        ELSE [et |-> c, err |-> "nil"]

\* what CheckAndDeriveCollationFromExprs returns for evalType et, the session's
\* charset ci and the arguments l
CheckAndDerive(et, ci, l) ==
    LET c == inferCollation(l)
    IN  IF c = <<>> THEN [et |-> <<>>, err |-> illegalMixCollationErr]
        ELSE IF et # "ETString" /\ c[1].Coer = CoercibilityNone
        THEN [et |-> <<>>, err |-> illegalMixCollationErr]
        ELSE LET c2 == IF et = "ETString" /\ c[1].Coer = CoercibilityNumeric
                       THEN [Coer |-> CoercibilityCoercible, Repe |-> ASCII,
                             Charset |-> ci.Charset, Collation |-> ci.Collation]
                       ELSE c[1]
             IN  IF ~safeConvert(c2, l)
                 THEN [et |-> <<>>, err |-> illegalMixCollationErr]
                 ELSE [et |-> <<c2>>, err |-> "nil"]

CollationFrame == UNCHANGED <<connVars, sonVars, fetchVars, hsVars, chunkVars, loadVars>>

CheckAndDeriveCollationFromExprs ==
    /\ cpc = "call"
    /\ \E t \in EvalTypes, ci \in CharsetInfos :
          /\ evalType' = t
          /\ charsetInfo' = ci
          /\ ec' = CheckAndDerive(t, ci, exprs).et
          /\ cerr' = CheckAndDerive(t, ci, exprs).err
    /\ cpc' = "returned"
    /\ UNCHANGED <<exprs, funcName, argTp>>
    /\ CollationFrame

\* the caller has built the arguments
CollationBegins ==
    /\ cpc = "call"
    /\ exprs \in ArgLists
    /\ evalType = ""
    /\ charsetInfo = [Charset |-> "", Collation |-> ""]
    /\ ec = <<>>
    /\ cerr = "nil"
    /\ funcName = ""
    /\ argTp = ""

InitCollation == NoLoadData /\ ConnOfCursor /\ NoCursor /\ HandshakeDone /\ NoStmt /\ CollationBegins

SpecCollation == InitCollation /\ [][CheckAndDeriveCollationFromExprs]_vars

(***************************************************************************)
(* deriveCollation: the arguments each function derives its collation from.*)
(***************************************************************************)
\* the function names of package ast, by the case of deriveCollation's switch
FromAllArgs ==
    {"concat", "concat_ws", "lower", "lcase", "reverse", "upper", "ucase", "quote", "coalesce"}
FromFirstArg ==
    {"left", "right", "repeat", "trim", "ltrim", "rtrim", "substr", "substring_index",
     "replace", "substring", "mid", "translate"}
FromFirstAndThird == {"lpad", "rpad"}
FromTail == {"elt", "export_set", "make_set"}
FromAllAsInt == {"find_in_set", "regexp"}
FromFirstTwo == {"locate", "instr", "position"}
Comparisons == {"ge", "le", "gt", "lt", "eq", "ne", "nulleq", "strcmp"}
Formats == {"date_format", "time_format"}
Sysconsts == {"database", "user", "current_user", "version", "current_role", "tidb_version"}
AsciiResults == {"format", "space", "to_base64", "uuid", "hex", "md5", "sha", "sha2"}
FuncNames ==
    FromAllArgs \cup FromFirstArg \cup {"insert_func"} \cup FromFirstAndThird \cup FromTail
    \cup FromAllAsInt \cup {"field"} \cup FromFirstTwo \cup Comparisons
    \cup {"if", "ifnull", "like", "in", "cast", "case", "length"}
    \cup Formats \cup Sysconsts \cup AsciiResults

\* the arguments the model hands to f: as many as deriveCollation indexes
ArityOf(f) ==
    CASE f = "insert_func" -> 4
      [] f \in FromFirstAndThird \cup {"if", "like"} -> 3
      [] OTHER -> 2

\* GetType().EvalType() of an expression: a column or constant that is no
\* string has Numeric coercibility
EvalTypeOf(e) == IF e.Coer = CoercibilityNumeric THEN "ETInt" ELSE "ETString"

\* the arguments of deriveCollation
DeriveArgs ==
    {Expression(c, k, r, "column") :
        c \in {CollationLatin1, CollationGBKBin, "utf8mb4_general_ci"},
        k \in {CoercibilityExplicit, CoercibilityImplicit}, r \in {ASCII, UNICODE}}
    \cup {Expression(CollationBin, CoercibilityNumeric, ASCII, "column")}

\* ec.Coer = CoercibilityNumeric; ec.Repe = ASCII
asBoolean(r) ==
    IF r.err # "nil" THEN r
    ELSE [r EXCEPT !.et = <<[r.et[1] EXCEPT !.Coer = CoercibilityNumeric, !.Repe = ASCII]>>]

\* the result of a function that is in no case of the switch
defaultCollation(retType, ci) ==
    [et |-> <<IF retType = "ETString"
              THEN [Coer |-> CoercibilityCoercible,
                    Repe |-> IF ci.Charset # CharsetASCII THEN UNICODE ELSE ASCII,
                    Charset |-> ci.Charset, Collation |-> ci.Collation]
              ELSE [Coer |-> CoercibilityNumeric, Repe |-> ASCII,
                    Charset |-> CharsetBin, Collation |-> CollationBin]>>,
     err |-> "nil"]

\* what deriveCollation returns for the function f with the arguments l
derive(f, l, retType, argTp0, ci) ==
    CASE f \in FromAllArgs -> CheckAndDerive(retType, ci, l)
      [] f \in FromFirstArg -> CheckAndDerive(retType, ci, <<l[1]>>)
      [] f = "insert_func" -> CheckAndDerive(retType, ci, <<l[1], l[4]>>)
      [] f \in FromFirstAndThird -> CheckAndDerive(retType, ci, <<l[1], l[3]>>)
      [] f \in FromTail -> CheckAndDerive(retType, ci, Tail(l))
      [] f \in FromAllAsInt -> CheckAndDerive("ETInt", ci, l)
      [] f = "field" ->
            IF argTp0 = "ETString" THEN CheckAndDerive(retType, ci, l)
            ELSE defaultCollation(retType, ci)
      [] f \in FromFirstTwo -> CheckAndDerive(retType, ci, <<l[1], l[2]>>)
      [] f \in Comparisons ->
            IF argTp0 = "ETString" THEN asBoolean(CheckAndDerive("ETInt", ci, l))
            ELSE defaultCollation(retType, ci)
      [] f = "if" -> CheckAndDerive(retType, ci, <<l[2], l[3]>>)
      [] f = "ifnull" -> CheckAndDerive(retType, ci, <<l[1], l[2]>>)
      [] f = "like" -> asBoolean(CheckAndDerive("ETInt", ci, <<l[1], l[2]>>))
      [] f = "in" ->
            IF EvalTypeOf(l[1]) = "ETString" THEN CheckAndDerive("ETInt", ci, l)
            ELSE defaultCollation(retType, ci)
      [] f \in Formats ->
            [et |-> <<[Coer |-> l[2].Coer, Repe |-> l[2].Repe,
                       Charset |-> ci.Charset, Collation |-> ci.Collation]>>,
             err |-> "nil"]
      [] f = "cast" ->
            [et |-> <<IF retType = "ETString" /\ argTp0 # "ETString"
                      THEN [Coer |-> l[1].Coer, Repe |-> l[1].Repe,
                            Charset |-> ci.Charset, Collation |-> ci.Collation]
                      ELSE [Coer |-> l[1].Coer, Repe |-> l[1].Repe,
                            Charset |-> l[1].Charset, Collation |-> l[1].Collate]>>,
             err |-> "nil"]
      [] f = "case" -> CheckAndDerive(retType, ci, l)
      [] f \in Sysconsts ->
            [et |-> <<[Coer |-> CoercibilitySysconst, Repe |-> UNICODE,
                       Charset |-> DefaultCharsetAndCollate.Charset,
                       Collation |-> DefaultCharsetAndCollate.Collation]>>,
             err |-> "nil"]
      [] f \in AsciiResults ->
            [et |-> <<[Coer |-> CoercibilityCoercible, Repe |-> ASCII,
                       Charset |-> ci.Charset, Collation |-> ci.Collation]>>,
             err |-> "nil"]
      [] OTHER -> defaultCollation(retType, ci)

deriveCollation ==
    /\ cpc = "derive"
    /\ \E t \in EvalTypes, a \in EvalTypes, ci \in CharsetInfos :
          /\ evalType' = t
          /\ argTp' = a
          /\ charsetInfo' = ci
          /\ ec' = derive(funcName, exprs, t, a, ci).et
          /\ cerr' = derive(funcName, exprs, t, a, ci).err
    /\ cpc' = "derived"
    /\ UNCHANGED <<exprs, funcName>>
    /\ CollationFrame

\* the type of a scalar function is about to be derived
DeriveBegins ==
    /\ cpc = "derive"
    /\ funcName \in FuncNames
    /\ exprs \in [1..ArityOf(funcName) -> DeriveArgs]
    /\ evalType = ""
    /\ argTp = ""
    /\ charsetInfo = [Charset |-> "", Collation |-> ""]
    /\ ec = <<>>
    /\ cerr = "nil"

InitDerive == NoLoadData /\ ConnOfCursor /\ NoCursor /\ HandshakeDone /\ NoStmt /\ DeriveBegins

SpecDerive == InitDerive /\ [][deriveCollation]_vars

(***************************************************************************)
(* dispatch: lines 1254-1316, the commands answered by dispatch itself,    *)
(* with handleRefresh, lines 2308-2315, and writeStats, lines 1318-1329.   *)
(***************************************************************************)
SimpleCommands == {"ComInitDB", "ComPing", "ComStatistics", "ComRefresh", "ComShutdown"}

\* what dispatch leaves alone
CommandFrame ==
    /\ cancelFunc' = TRUE
    /\ UNCHANGED <<status, cmd, nStmts, stmtIdx, retrying, clientMultiStmts, multiStmtMode,
                   allowFallback, panicking, closed, readErr>>
    /\ UNCHANGED <<sonVars, fetchVars, auxVars>>

\* writeOK or writeStats, then dispatch returns: the packet is written, or the
\* write or the flush fails
writeAndReturn(packet) ==
    \/ RunAfterDispatch("nil", Append(out, packet))
    \/ RunAfterDispatch("other", out)

\* lines 1254-1288: the switch on cmd; subCommand is data[0] of COM_REFRESH
dispatchCommand ==
    /\ pc = "dispatch"
    /\ cmd \in SimpleCommands
    /\ \/ /\ cmd = "ComInitDB"
          /\ \/ RunAfterDispatch("other", out)    \* useDB fails
             \/ writeAndReturn(OkPacket(0, ctxStatus(inTrans), FALSE))
       \/ /\ cmd = "ComPing"
          /\ writeAndReturn(OkPacket(0, ctxStatus(inTrans), FALSE))
       \/ /\ cmd = "ComStatistics"
          /\ writeAndReturn([k |-> "stats", stmt |-> 0, status |-> {}, warn |-> FALSE])
       \/ /\ cmd = "ComRefresh"
          /\ \E subCommand \in 0..2 :
                IF subCommand = 1
                THEN /\ pc' = "handleQuery"       \* FLUSH PRIVILEGES
                     /\ UNCHANGED <<out, err, sequence>>
                ELSE writeAndReturn(OkPacket(0, ctxStatus(inTrans), FALSE))
       \/ /\ cmd = "ComShutdown"
          /\ pc' = "handleQuery"                  \* SHUTDOWN
          /\ UNCHANGED <<out, err, sequence>>
    /\ UNCHANGED <<inTrans, executed>>
    /\ CommandFrame

\* lines 1281-1284 and 2310-2314: handleQuery over the one statement, which has
\* no result set (handleStmt, lines 1902-1940), then writeOK
handleQueryThenOK ==
    /\ pc = "handleQuery"
    /\ executed' = Append(executed, 1)
    /\ \E t \in BOOLEAN :
         /\ inTrans' = t
         /\ \/ \* ExecuteStmt fails, or handleQuerySpecial fails to write its OK
               \E e \in ErrKinds : RunAfterDispatch(e, out)
            \/ \* handleQuerySpecial wrote its OK; writeOK fails
               RunAfterDispatch("other", Append(out, OkPacket(1, ctxStatus(t), FALSE)))
            \/ \* handleQuerySpecial wrote its OK; writeOK writes another
               RunAfterDispatch("nil", Append(out, OkPacket(1, ctxStatus(t), FALSE))
                                          \o <<OkPacket(0, ctxStatus(t), FALSE)>>)
    /\ CommandFrame

\* a connection whose Run loop has read one of these commands
ConnOfCommand ==
    /\ status = connStatusDispatching
    /\ pc = "dispatch"
    /\ cmd \in SimpleCommands
    /\ nStmts = 0
    /\ stmtIdx = 0
    /\ retrying = FALSE
    /\ clientMultiStmts \in BOOLEAN
    /\ multiStmtMode \in {OffInt, OnInt, WarnInt}
    /\ allowFallback = FALSE
    /\ inTrans \in BOOLEAN
    /\ out = <<>>
    /\ executed = <<>>
    /\ err = "none"
    /\ panicking = FALSE
    /\ closed = FALSE
    /\ sequence = 0
    /\ cancelFunc = FALSE
    /\ readErr = "nil"
    /\ pcS = "idle"
    /\ sonSeen = -1
    /\ sonRet = "none"

InitDispatch == NoLoadData /\ ConnOfCommand /\ NoCursor /\ HandshakeDone /\ NoStmt /\ NoCollation

SpecDispatch == InitDispatch /\ [][dispatchCommand \/ handleQueryThenOK]_vars

(***************************************************************************)
(* LOAD DATA: handleLoadData, lines 1557-1613, and the goroutine it        *)
(* starts, processStream, lines 1495-1553. CommitWork is the executor's.   *)
(***************************************************************************)
LoadFrame == UNCHANGED <<connVars, sonVars, fetchVars, hsVars, chunkVars, collVars>>

\* the data packets read so far
DataPackets == {i \in 1..Len(readLog) : readLog[i].got = "data"}

\* what cc.readPacket can return next: the client sends at most MaxPackets
\* packets of data before the empty packet that ends the file
PacketsOffered ==
    {"empty", "io.EOF", "error"}
    \cup (IF Cardinality(DataPackets) < MaxPackets THEN {"data"} ELSE {})

\* one call of cc.readPacket by the goroutine who, returning got
ReadPacket(who, got) == [by |-> who, got |-> got]

\* the return of handleLoadData, with the deferred ForceQuit of line 1577
handleLoadDataReturns(e) ==
    /\ lret' = e
    /\ lpc' = "returned"
    /\ quit' = TRUE

\* lines 1559-1586: the checks, the request for the file, the new transaction and
\* the start of the goroutine
handleLoadDataBegin ==
    /\ lpc = "start"
    /\ \/ \* a check or writeReq fails, or NewTxn does after the defer of ForceQuit
          /\ lret' = "other"
          /\ lpc' = "returned"
          /\ quit' \in BOOLEAN
          /\ UNCHANGED ppc
       \/ \* go processStream
          /\ ppc' = "loop"
          /\ lpc' = "commit"
          /\ UNCHANGED <<lret, quit>>
    /\ UNCHANGED <<drained, lerr, psErr, readLog>>
    /\ LoadFrame

\* line 1587: CommitWork returns, at any time, with or without an error, and may
\* have closed QuitCh
CommitWork ==
    /\ lpc = "commit"
    /\ lerr' \in {"nil", "other"}
    /\ quit' \in {quit, TRUE}
    /\ lpc' = "wait"
    /\ UNCHANGED <<ppc, drained, lret, psErr, readLog>>
    /\ LoadFrame

\* a faulty variant: handleLoadData does not wait for the goroutine
wgWaitSkipped ==
    /\ lpc = "wait"
    /\ IF lerr # "nil"
       THEN lpc' = "drain" /\ UNCHANGED <<lret, quit>>
       ELSE handleLoadDataReturns(lerr)
    /\ UNCHANGED <<ppc, drained, lerr, psErr, readLog>>
    /\ LoadFrame

\* lines 1588-1589: wg.Wait returns once processStream has called wg.Done
wgWait ==
    /\ lpc = "wait"
    /\ ppc = "done"
    /\ IF lerr # "nil"
       THEN lpc' = "drain" /\ UNCHANGED <<lret, quit>>
       ELSE handleLoadDataReturns(lerr)
    /\ UNCHANGED <<ppc, drained, lerr, psErr, readLog>>
    /\ LoadFrame

\* lines 1594-1599: the head of the drain loop; killed is what the
\* compare-and-swap of the Killed flag finds
drainCheck ==
    /\ lpc = "drain"
    /\ IF drained
       THEN handleLoadDataReturns(lerr)
       ELSE \E killed \in BOOLEAN :
              IF killed
              THEN handleLoadDataReturns("ErrQueryInterrupted")
              ELSE lpc' = "drainRead" /\ UNCHANGED <<lret, quit>>
    /\ UNCHANGED <<ppc, drained, lerr, psErr, readLog>>
    /\ LoadFrame

\* lines 1600-1609: one packet read by the drain loop
drainReadPacket ==
    /\ lpc = "drainRead"
    /\ \E got \in PacketsOffered :
         /\ readLog' = Append(readLog, ReadPacket("handleLoadData", got))
         /\ IF got \in {"error", "io.EOF"}
            THEN handleLoadDataReturns(lerr) /\ UNCHANGED drained
            ELSE IF got = "empty"
            THEN handleLoadDataReturns(lerr) /\ drained' = TRUE
            ELSE lpc' = "drain" /\ UNCHANGED <<drained, lret, quit>>
    /\ UNCHANGED <<ppc, lerr, psErr>>
    /\ LoadFrame

handleLoadData ==
    \/ handleLoadDataBegin
    \/ CommitWork
    \/ wgWait
    \/ drainCheck
    \/ drainReadPacket

\* line 1513: the goroutine enters cc.readPacket
processStreamRead ==
    /\ ppc = "loop"
    /\ ppc' = "read"
    /\ UNCHANGED <<lpc, drained, quit, lerr, lret, psErr, readLog>>
    /\ LoadFrame

\* lines 1513-1552: readPacket returns, and the rest of the round; after the loop
\* EnqOneTask, whose error is the err the deferred function sees
processStreamPacket ==
    /\ ppc = "read"
    /\ \E got \in PacketsOffered :
         /\ readLog' = Append(readLog, ReadPacket("processStream", got))
         /\ \/ \* an error other than io.EOF: break
               /\ got = "error"
               /\ psErr' = TRUE
               /\ ppc' = "deferred"
               /\ UNCHANGED drained
            \/ \* io.EOF: the round goes on with the data readPacket returned
               /\ got = "io.EOF"
               /\ drained' \in BOOLEAN
               /\ psErr' = TRUE
               /\ ppc' = "deferred"
            \/ \* the empty packet: Drained, and the last batch unless prevData is empty
               /\ got = "empty"
               /\ drained' = TRUE
               /\ psErr' \in BOOLEAN
               /\ ppc' = "deferred"
            \/ \* data, and QuitCh is closed, insertDataWithCommit fails or panics
               /\ got = "data"
               /\ psErr' = TRUE
               /\ ppc' = "deferred"
               /\ UNCHANGED drained
            \/ \* data, enqueued
               /\ got = "data"
               /\ ~quit
               /\ ppc' = "loop"
               /\ UNCHANGED <<drained, psErr>>
    /\ UNCHANGED <<lpc, quit, lerr, lret>>
    /\ LoadFrame

\* lines 1499-1511: the deferred function: ForceQuit or CloseTaskQueue, then wg.Done
processStreamDeferred ==
    /\ ppc = "deferred"
    /\ quit' = (quit \/ psErr)
    /\ ppc' = "done"
    /\ UNCHANGED <<lpc, drained, lerr, lret, psErr, readLog>>
    /\ LoadFrame

processStream ==
    \/ processStreamRead
    \/ processStreamPacket
    \/ processStreamDeferred

\* handleQuerySpecial has found the LoadDataInfo of the statement
LoadDataBegins ==
    /\ lpc = "start"
    /\ ppc = "none"
    /\ drained = FALSE
    /\ quit = FALSE
    /\ lerr = "none"
    /\ lret = "none"
    /\ psErr = FALSE
    /\ readLog = <<>>

InitLoadData == ConnOfCursor /\ NoCursor /\ HandshakeDone /\ NoStmt /\ NoCollation /\ LoadDataBegins

SpecLoadData == InitLoadData /\ [][handleLoadData \/ processStream]_vars

(***************************************************************************)
(* Properties of the cursor fetch.                                         *)
(***************************************************************************)
RECURSIVE SentRows(_)
\* the rows of the responses o, concatenated
SentRows(o) == IF o = <<>> THEN <<>> ELSE SentRows(Take(o, Len(o) - 1)) \o o[Len(o)].rows

NoFetchFailure == nextFails = 0 /\ writeFails = 0

CursorExists(r) == ServerStatusCursorExists \in r.status
LastRowSent(r) == ServerStatusLastRowSend \in r.status

\* C1 as claimed: fetchSize 10 over 25 rows, no failure: the responses carry 10, 10
\* and 5 rows, and the third response, and no earlier one, has the cursor-exists
\* bit cleared.
C1_ThirdResponseClearsCursor ==
    NoFetchFailure =>
        /\ (Len(fetchOut) >= 1 => Len(fetchOut[1].rows) = 10 /\ CursorExists(fetchOut[1]))
        /\ (Len(fetchOut) >= 2 => Len(fetchOut[2].rows) = 10 /\ CursorExists(fetchOut[2]))
        /\ (Len(fetchOut) >= 3 => Len(fetchOut[3].rows) = 5 /\ ~CursorExists(fetchOut[3]))

\* C1 as the code has it: the first three responses carry 10, 10 and 5 rows, all
\* three with the cursor-exists bit set; a fourth response carries no row, has the
\* bit cleared and last-row-sent set, and closes the result set; there is no fifth.
C1_FourthResponseClearsCursor ==
    NoFetchFailure =>
        /\ Len(fetchOut) <= 4
        /\ (Len(fetchOut) >= 1 => Len(fetchOut[1].rows) = 10 /\ CursorExists(fetchOut[1]))
        /\ (Len(fetchOut) >= 2 => Len(fetchOut[2].rows) = 10 /\ CursorExists(fetchOut[2]))
        /\ (Len(fetchOut) >= 3 => Len(fetchOut[3].rows) = 5 /\ CursorExists(fetchOut[3]))
        /\ (Len(fetchOut) >= 4 =>
               /\ fetchOut[4].rows = <<>>
               /\ ~CursorExists(fetchOut[4])
               /\ LastRowSent(fetchOut[4])
               /\ rsClosed)
        /\ (rsClosed => Len(fetchOut) = 4)

C1_Witness ==
    /\ NoFetchFailure
    /\ rsTotal = 25
    /\ Len(fetchOut) = 4
    /\ rsClosed

\* what C2 says of the responses so far: the one just written carries at most the
\* fetchSize of its fetch, and between two fetches the rows sent so far followed by the
\* rows stored are exactly the rows pulled from the executor, in order
FetchKeepsEveryRow ==
    /\ (fpc = "idle" /\ fetchOut # <<>> => Len(fetchOut[Len(fetchOut)].rows) <= fetchSize)
    /\ (fpc = "idle" => SentRows(fetchOut) \o rsStored = Rows(1, rsPos))
    /\ (rsClosed => SentRows(fetchOut) = Rows(1, rsTotal))

UnsafeMultiStmt == cmd = "ComQuery" /\ nStmts > 1 /\ ~clientMultiStmts

\* the packets of out that are ERR packets
ErrPackets(o) == {k \in 1..Len(o) : o[k].k = "err"}

\* C3: with several statements, no ClientMultiStatements and mode Off, handleQuery
\* returns errMultiStatementDisabled before any statement is executed: nothing
\* is executed and the client receives one ERR packet and nothing else.
C3_OffRejectsBeforeExecuting ==
    (UnsafeMultiStmt /\ multiStmtMode = OffInt) =>
        /\ executed = <<>>
        /\ err = "errMultiStatementDisabled"
        /\ out = <<ErrPacket>>

C3_Witness ==
    /\ UnsafeMultiStmt
    /\ multiStmtMode = OffInt
    /\ err = "errMultiStatementDisabled"
    /\ pc = "read"

\* C4 as claimed: with several statements, no ClientMultiStatements and mode
\* Warn, no statement but the first is ever executed.
C4_WarnExecutesOnlyFirst ==
    (UnsafeMultiStmt /\ multiStmtMode = WarnInt) =>
        \A k \in 1..Len(executed) : executed[k] = 1

\* C4 as the code has it: with several statements, no ClientMultiStatements and
\* mode Warn, when handleQuery returns without error every statement was executed,
\* in statement order, each has its response, and the warning is attached to the
\* response of the last statement and to no other.
C4_WarnExecutesAllAndWarnsOnLast ==
    (UnsafeMultiStmt /\ multiStmtMode = WarnInt /\ err = "nil") =>
        /\ \A i \in 1..nStmts : \E k \in 1..Len(executed) : executed[k] = i
        /\ \A k \in 1..(Len(executed) - 1) : executed[k] <= executed[k + 1]
        /\ Len(out) = nStmts
        /\ \A k \in 1..Len(out) : out[k].stmt = k /\ (out[k].warn <=> k = nStmts)

C4_Witness ==
    /\ UnsafeMultiStmt
    /\ multiStmtMode = WarnInt
    /\ err = "nil"
    /\ executed = <<1, 2>>
    /\ out[2].warn

\* C5: when handleQuery has executed its statements and returns without error, it
\* has written one complete response (a result set or an OK) per statement, in
\* statement order, and exactly the responses before the last carry
\* ServerMoreResultsExists.
C5_OneResponsePerStmtMoreResultsButLast ==
    (cmd = "ComQuery" /\ nStmts >= 1 /\ err = "nil") =>
        /\ Len(out) = nStmts
        /\ \A k \in 1..Len(out) :
              /\ out[k].stmt = k
              /\ out[k].k \in {"ok", "resultset"}
              /\ (ServerMoreResultsExists \in out[k].status <=> k < nStmts)

C5_Witness ==
    /\ cmd = "ComQuery"
    /\ nStmts = MaxStmts
    /\ err = "nil"
    /\ Len(out) = nStmts
    /\ out[1].k = "resultset"
    /\ ServerMoreResultsExists \in out[1].status
    /\ ServerMoreResultsExists \notin out[nStmts].status

(***************************************************************************)
(* Properties of Run and ShutdownOrNotify.                                 *)
(***************************************************************************)
ShutdownRequested == status \in {connStatusShutdown, connStatusWaitShutdown}

\* Run is inside dispatch
Dispatching == pc \in {"dispatch", "stmt"}

\* C6: once the status is Shutdown or WaitShutdown it stays one of the two, Run
\* never enters dispatch again, and its next status CAS makes it return.
C6_NoDispatchAfterShutdownRequest ==
    [][ShutdownRequested =>
          /\ ShutdownRequested'
          /\ ~(~Dispatching /\ Dispatching')
          /\ (pc \in {"cas1", "cas2"} /\ pc' # pc => pc' = "defer")]_vars

\* Run read a command packet, its CAS to Dispatching failed on a shutdown, and it
\* is returning without having dispatched the command
C6_Witness ==
    /\ ShutdownRequested
    /\ pc = "defer"
    /\ cmd # "none"
    /\ err = "none"
    /\ ~panicking

\* C7: ShutdownOrNotify returns true exactly from its CAS when that finds Reading,
\* and the status is then Shutdown; when the CAS finds another status the status
\* becomes WaitShutdown and false is returned; called in a transaction it
\* returns false and leaves the status as it is.
C7_ShutdownOrNotifyOutcome ==
    [][/\ (pcS = "cas" /\ pcS' # "cas" /\ status = connStatusReading) =>
             (pcS' = "done" /\ sonRet' = "true" /\ status' = connStatusShutdown)
       /\ (pcS = "cas" /\ pcS' # "cas" /\ status # connStatusReading) =>
             (pcS' = "store" /\ sonRet' # "true" /\ status' = status)
       /\ (pcS = "store" /\ pcS' # "store") =>
             (pcS' = "done" /\ sonRet' = "false" /\ status' = connStatusWaitShutdown)
       /\ (pcS \in {"idle", "done"} /\ inTrans /\ <<pcS, sonSeen, sonRet>>' # <<pcS, sonSeen, sonRet>>) =>
             (pcS' = "done" /\ sonRet' = "false" /\ status' = status)
       /\ (sonRet' = "true" /\ sonRet # "true") =>
             (pcS = "cas" /\ status = connStatusReading)]_vars

\* ShutdownOrNotify found a status other than Reading, stored WaitShutdown and
\* returned false
C7_Witness ==
    /\ pcS = "done"
    /\ sonRet = "false"
    /\ sonSeen = connStatusDispatching
    /\ status = connStatusWaitShutdown

\* C8 as claimed: a call of ShutdownOrNotify that found no transaction leads to
\* Run returning.
C8_ShutdownLeadsToReturn == (pcS = "cas") ~> (pc = "returned")

\* C8 as the code has it: such a call leads to Run returning, or to the process
\* being stopped by the Fatal log of a critical dispatch error.
C8_ShutdownLeadsToReturnOrFatal == (pcS = "cas") ~> (pc \in {"returned", "fatal"})

\* ShutdownOrNotify stored WaitShutdown during a dispatch and Run has returned
C8_Witness ==
    /\ pcS = "done"
    /\ sonSeen = connStatusDispatching
    /\ status = connStatusWaitShutdown
    /\ pc = "returned"
    /\ err = "nil"

\* C9: a panic during dispatch is unwinding only in Run's deferred function, whose
\* step writes one ERR packet, closes the connection and ends Run with the panic
\* recovered; once Run has returned it never reads again.
C9_PanicReportedThenClosed ==
    /\ [](panicking => pc = "defer")
    /\ [][(panicking /\ pc' # pc) =>
             /\ pc' = "returned"
             /\ ~panicking'
             /\ out' = Append(out, ErrPacket)
             /\ closed']_vars
    /\ [][pc = "returned" => pc' = "returned"]_vars

\* a statement panicked, and Run has returned with the ERR packet written
C9_Witness ==
    /\ pc = "returned"
    /\ cmd = "ComQuery"
    /\ err = "none"
    /\ executed # <<>>
    /\ closed
    /\ Len(out) >= 1
    /\ out[Len(out)] = ErrPacket

\* the errors of dispatch after which Run goes on
OrdinaryErr(e) == e \notin {"none", "nil", "io.EOF", "ErrResultUndetermined", "ErrCritical"}

\* C10: when dispatch returns an error other than io.EOF, ErrResultUndetermined
\* and ErrCritical, Run writes one ERR packet, the only one of that command, does
\* not close the connection and goes back to the top of its loop.
C10_OrdinaryErrorReportedLoopGoesOn ==
    [][(Dispatching /\ ~Dispatching' /\ ~panicking' /\ OrdinaryErr(err')) =>
          /\ pc' = "cas1"
          /\ ~closed'
          /\ Len(out') >= 1
          /\ ErrPackets(out') = {Len(out')}]_vars

\* after such an error Run is reading the next command
C10_Witness ==
    /\ pc = "read"
    /\ OrdinaryErr(err)
    /\ ~closed
    /\ ErrPackets(out) = {Len(out)}

C12_SequenceZeroAtRead == (pc \in {"load", "read"}) => (sequence = 0)

\* Run is about to read after a statement failed and the ERR packet followed
\* the packets of an earlier statement
C12_Witness ==
    /\ pc = "read"
    /\ sequence = 0
    /\ cmd = "ComQuery"
    /\ Len(out) >= 2
    /\ out[Len(out)] = ErrPacket

(***************************************************************************)
(* Properties of the handshake.                                            *)
(***************************************************************************)
\* the entries of log of kind k
Events(log, k) == {i \in 1..Len(log) : log[i].k = k}

\* handshake has returned
HandshakeReturned == hpc = "done" /\ herr # "none"

\* the errors of handshake that come from sending the greeting or the OK packet
UnreportedErrs == {"greeting failed", "OK write failed", "OK flush failed"}

\* C13 as stated: whenever handshake has returned an error, the last packet it
\* wrote is an error packet.
C13_EveryFailureWritesError ==
    (HandshakeReturned /\ herr # "nil") =>
        /\ Events(hsLog, "writeErr") # {}
        /\ hsLog[Len(hsLog)].k = "writeErr"

\* C13: a handshake that fails after the greeting was sent and before the OK
\* packet is written has written exactly one error packet, last of all, when it
\* returns; a handshake that fails in sending the greeting or in writing or
\* flushing the OK packet returns with no error packet written.
C13_FailureAfterGreetingWritesError ==
    (HandshakeReturned /\ herr # "nil") =>
        IF herr \in UnreportedErrs
        THEN Events(hsLog, "writeErr") = {}
        ELSE /\ Events(hsLog, "writeErr") = {Len(hsLog)}
             /\ Events(hsLog, "writeOK") = {}

\* credential verification failed, and the error packet followed the greeting
C13_Witness ==
    /\ HandshakeReturned
    /\ herr = "errAccessDenied"
    /\ Events(hsLog, "auth") # {}
    /\ hsLog[1].k = "writeGreeting"
    /\ hsLog[Len(hsLog)].k = "writeErr"

\* the response has ClientSSL set, the server has no TLS configuration and
\* secure transport is not mandated
SSLWithoutTLS ==
    /\ hpc \notin {"greeting", "response"}
    /\ ClientSSL \in respCapability
    /\ ~tlsConfig
    /\ ~requireSecureTransport

\* C14: with ClientSSL set, no TLS configuration and no mandate, the connection
\* is never upgraded, handshake never fails with a TLS or secure-transport
\* error, the one packet read is the one parsed as the HandshakeResponse, and
\* once the credentials are accepted handshake fails only in init-connect or in
\* writing the OK packet.
C14_ClientSSLIgnoredWithoutTLS ==
    SSLWithoutTLS =>
        /\ ~tlsConn
        /\ Events(hsLog, "tls") = {}
        /\ hpc # "tls"
        /\ herr \notin {"tls failed", "errSecureTransportRequired"}
        /\ (hpc \in {"body", "authPlugin"} => Cardinality(Events(hsLog, "read")) = 1)
        /\ (hpc = "authPlugin" => respAuth = "packet 1")
        /\ (HandshakeReturned /\ authUser # <<>> =>
               herr \in {"nil", "errNewAbortingConnection", "OK write failed", "OK flush failed"})

\* such a handshake has completed over plaintext
C14_Witness ==
    /\ SSLWithoutTLS
    /\ HandshakeReturned
    /\ herr = "nil"
    /\ ~tlsConn
    /\ authUser # <<>>
    /\ hsLog[Len(hsLog)].k = "writeOK"

\* the salt the greeting carried
GreetingSalt == hsLog[1].salt

\* C15 as stated: the salt of an AuthSwitchRequest differs from the greeting's.
C15_AuthSwitchSaltIsFresh ==
    \A i \in Events(hsLog, "writeAuthSwitch") : hsLog[i].salt # GreetingSalt

\* C15: an AuthSwitchRequest carries cc.salt, the salt the greeting of the same
\* connection carried, and the credentials are verified against that salt.
C15_AuthSwitchSaltIsTheGreetingSalt ==
    /\ \A i \in Events(hsLog, "writeAuthSwitch") : hsLog[i].salt = GreetingSalt
    /\ \A i \in Events(hsLog, "auth") : hsLog[i].salt = GreetingSalt

\* the credentials sent in answer to an AuthSwitchRequest were verified
C15_Witness ==
    /\ Events(hsLog, "writeAuthSwitch") # {}
    /\ Events(hsLog, "auth") # {}
    /\ respAuth = "switch response"
    /\ herr = "nil"

\* C16: a session on a transport that is no unix socket is never authenticated
\* as an account configured for auth_socket.
C16_SocketAuthOnlyOverUnixSocket == ~isUnixSocket => authUser # <<AuthSocket>>

\* C17: a handshake with a legacy response never ends with the error that the
\* auth plugin is unknown: it ends with OK unless the packet, the credentials,
\* the transport or init-connect fail it.
C17_LegacyClientCompletes ==
    (HandshakeReturned /\ isOldVersion) => herr # "Unknown auth plugin"

(***************************************************************************)
(* Properties of one statement's response.                                 *)
(***************************************************************************)
\* handleStmt has returned an error
StmtFailed == wpc = "done" /\ wErr # "nil"

\* C18: a failure is reported retryable only with no packet of the response
\* written and no column descriptor sent; the failure of ExecuteStmt and of the
\* first Next outside cursor mode are retryable; the failure of a later Next, of
\* any write, and every failure in cursor mode are not.
C18_RetryableOnlyBeforeAnyPacket ==
    StmtFailed =>
        /\ wRetryable => (wWritten = 0 /\ ~gotColumnInfo)
        /\ wErr = "ExecuteStmt" => wRetryable
        /\ (wErr = "Next" /\ nextCalls = 1) => wRetryable
        /\ (wErr = "Next" /\ nextCalls > 1) => ~wRetryable
        /\ wErr \in {"writeColumnInfo", "row", "writeEOF", "flush"} => ~wRetryable
        /\ (wCursor /\ wErr # "ExecuteStmt") => ~wRetryable

\* the second Next failed after the columns and a row were written
C18_Witness ==
    /\ StmtFailed
    /\ wErr = "Next"
    /\ nextCalls = 2
    /\ gotColumnInfo
    /\ wWritten >= 3
    /\ ~wRetryable

(***************************************************************************)
(* Properties of the derivation of collations.                             *)
(***************************************************************************)
\* CheckAndDeriveCollationFromExprs returned for two arguments
ResolvedPair == cpc = "returned" /\ Len(exprs) = 2

\* the arguments are two literals of utf8mb4, one utf8mb4_bin and one utf8mb4_general_ci
BinAndGeneralCiLiterals ==
    /\ ResolvedPair
    /\ {exprs[1].Collate, exprs[2].Collate} = {CollationUTF8MB4, "utf8mb4_general_ci"}
    /\ exprs[1].Coer = CoercibilityCoercible
    /\ exprs[2].Coer = CoercibilityCoercible

\* C19, as stated: resolving (utf8mb4, utf8mb4_bin, Coercible) and
\* (utf8mb4, utf8mb4_general_ci, Coercible) gives utf8mb4, utf8mb4_bin and
\* CoercibilityNone.
C19_BinAndGeneralCiGiveNone ==
    BinAndGeneralCiLiterals =>
        /\ cerr = "nil"
        /\ ec = <<[Coer |-> CoercibilityNone, Repe |-> ec[1].Repe,
                   Charset |-> CharsetUTF8MB4, Collation |-> CollationUTF8MB4]>>

\* C19, amended: resolving (utf8mb4, utf8mb4_bin, Coercible) and
\* (utf8mb4, utf8mb4_general_ci, Coercible), in either order, gives utf8mb4
\* and utf8mb4_bin with the coercibility unchanged, Coercible: one of the two
\* collations is a _bin collation, and it wins without a downgrade.
C19_BinAndGeneralCiGiveBinCoercible ==
    BinAndGeneralCiLiterals =>
        /\ cerr = "nil"
        /\ Len(ec) = 1
        /\ ec[1].Charset = CharsetUTF8MB4
        /\ ec[1].Collation = CollationUTF8MB4
        /\ ec[1].Coer = CoercibilityCoercible

C19_Witness ==
    /\ BinAndGeneralCiLiterals
    /\ exprs[1].Collate = CollationUTF8MB4
    /\ exprs[2].Collate = "utf8mb4_general_ci"
    /\ cerr = "nil"
    /\ ec[1].Collation = CollationUTF8MB4

\* e is a literal with an explicit COLLATE ascii_bin
IsAsciiBinLiteral(e) ==
    e.Collate = CollationASCII /\ e.Coer = CoercibilityExplicit /\ e.value # "column"

\* e is a column of charset gbk
IsGbkColumn(e) ==
    e.Charset = CharsetGBK /\ e.Coer = CoercibilityImplicit /\ e.value = "column"

\* CONCAT of the literal exprs[i] and the column exprs[3 - i] was resolved
ConcatResolved(i) ==
    /\ ResolvedPair
    /\ evalType = "ETString"
    /\ IsAsciiBinLiteral(exprs[i])
    /\ IsGbkColumn(exprs[3 - i])

\* the resolution gave the literal's charset and collation
GaveAsciiBin ==
    /\ cerr = "nil"
    /\ Len(ec) = 1
    /\ ec[1].Charset = CharsetASCII
    /\ ec[1].Collation = CollationASCII

\* C20, as stated: CONCAT of a literal with Explicit coercibility and
\* collation ascii_bin and a gbk column with Implicit coercibility resolves to
\* (ascii, ascii_bin), whatever the column's repertoire.
C20_ExplicitLiteralAlwaysWins ==
    \A i \in 1..2 : ConcatResolved(i) => GaveAsciiBin

\* C20, amended: CONCAT of a literal with Explicit coercibility and collation
\* ascii_bin and a gbk column with Implicit coercibility, in either order,
\* resolves to (ascii, ascii_bin) when the column's repertoire is ASCII, and
\* fails with IllegalMixCollation and no result when it is not.
C20_ExplicitLiteralWinsOverAsciiColumn ==
    \A i \in 1..2 :
        ConcatResolved(i) =>
            IF exprs[3 - i].Repe = ASCII
            THEN GaveAsciiBin
            ELSE cerr = illegalMixCollationErr /\ ec = <<>>

C20_Witness ==
    /\ ConcatResolved(1)
    /\ exprs[2].Repe = ASCII
    /\ GaveAsciiBin

\* e is a literal with an explicit COLLATE of charset cs
IsExplicitLiteral(e, cs) ==
    e.Charset = cs /\ e.Coer = CoercibilityExplicit /\ e.value # "column"

\* CONCAT(latin1_literal, gbk_literal), both with an explicit COLLATE, was resolved
ConcatOfExplicitLiterals ==
    /\ ResolvedPair
    /\ evalType = "ETString"
    /\ IsExplicitLiteral(exprs[1], CharsetLatin1)
    /\ IsExplicitLiteral(exprs[2], CharsetGBK)

\* C21, as stated: CONCAT of a latin1 literal and a gbk literal that are both
\* Explicit fails with IllegalMixCollation, whatever the two repertoires.
C21_ExplicitLiteralsAlwaysFail ==
    ConcatOfExplicitLiterals => (cerr = illegalMixCollationErr /\ ec = <<>>)

\* C21, amended: CONCAT of a latin1 literal and a gbk literal that are both
\* Explicit fails with IllegalMixCollation when both repertoires are ASCII or
\* both are not; when exactly one repertoire is ASCII it succeeds with the
\* charset and collation of the other literal and Explicit coercibility.
C21_ExplicitLiteralsFailOnEqualRepertoire ==
    ConcatOfExplicitLiterals =>
        IF (exprs[1].Repe = ASCII) = (exprs[2].Repe = ASCII)
        THEN cerr = illegalMixCollationErr /\ ec = <<>>
        ELSE LET w == IF exprs[1].Repe = ASCII THEN exprs[2] ELSE exprs[1]
             IN  /\ cerr = "nil"
                 /\ Len(ec) = 1
                 /\ ec[1].Charset = w.Charset
                 /\ ec[1].Collation = w.Collate
                 /\ ec[1].Coer = CoercibilityExplicit

C21_Witness ==
    /\ ConcatOfExplicitLiterals
    /\ exprs[1].Repe = UNICODE
    /\ exprs[2].Repe = UNICODE
    /\ cerr = illegalMixCollationErr

\* CONCAT over the list [A, A] was resolved
ConcatOfTwice ==
    /\ ResolvedPair
    /\ evalType = "ETString"
    /\ exprs[1] = exprs[2]

\* the resolution gave the charset and collation of exprs[1]
GaveFirstUnchanged ==
    /\ cerr = "nil"
    /\ Len(ec) = 1
    /\ ec[1].Charset = exprs[1].Charset
    /\ ec[1].Collation = exprs[1].Collate

\* C22, as stated: for every argument A, CONCAT over [A, A] succeeds and
\* returns A's own charset and collation.
C22_TwiceGivesItself == ConcatOfTwice => GaveFirstUnchanged

\* C22, amended: for every argument A whose coercibility is not Numeric,
\* CONCAT over [A, A] succeeds and returns A's charset, collation,
\* coercibility and repertoire; for A with Numeric coercibility it returns
\* the connection's charset and collation with Coercible coercibility and
\* ASCII repertoire, or fails with IllegalMixCollation, and it fails only when
\* A's charset is not the connection's and A's repertoire is not ASCII.
C22_TwiceGivesItselfUnlessNumeric ==
    ConcatOfTwice =>
        IF exprs[1].Coer # CoercibilityNumeric
        THEN /\ GaveFirstUnchanged
             /\ ec[1].Coer = exprs[1].Coer
             /\ ec[1].Repe = exprs[1].Repe
        ELSE \/ /\ cerr = "nil"
                /\ ec = <<[Coer |-> CoercibilityCoercible, Repe |-> ASCII,
                           Charset |-> charsetInfo.Charset,
                           Collation |-> charsetInfo.Collation]>>
             \/ /\ cerr = illegalMixCollationErr
                /\ ec = <<>>
                /\ exprs[1].Charset # charsetInfo.Charset
                /\ exprs[1].Repe # ASCII

C22_Witness ==
    /\ ConcatOfTwice
    /\ exprs[1].Coer = CoercibilityImplicit
    /\ exprs[1].Collate = "gbk_chinese_ci"
    /\ GaveFirstUnchanged

\* what the aggregation gives when the argument b wins against the argument o
Wins(b, o) ==
    <<[Coer |-> b.Coer, Repe |-> RepertoireOr(b.Repe, o.Repe),
       Charset |-> b.Charset, Collation |-> b.Collate]>>

\* a pair was resolved in which exprs[i] is weaker than the other argument
WeakerAt(i) == ResolvedPair /\ exprs[i].Coer > exprs[3 - i].Coer

\* C23, as stated: in a pair, in either order, where one argument's collation
\* is a binary collation (binary or a _bin collation) and the other argument's
\* coercibility is strictly greater, the aggregation gives the binary
\* argument's charset, collation and coercibility, whatever the charsets.
C23_AnyBinaryCollationWins ==
    \A i \in 1..2 :
        (/\ WeakerAt(i)
         /\ (exprs[3 - i].Collate = CollationBin \/ isBinCollation(exprs[3 - i].Collate)))
        => inferCollation(exprs) = Wins(exprs[3 - i], exprs[i])

\* C23, amended: in a pair, in either order, where one argument's collation is
\* the collation binary and the other argument's coercibility is strictly
\* greater, the aggregation gives the binary argument's charset, collation and
\* coercibility, whatever the other charset.  A _bin collation wins in the
\* same way only against the collation binary, against its own charset,
\* against an argument of ASCII repertoire or of coercibility Sysconst or
\* weaker, or when its own charset is utf8 or utf8mb4; otherwise the
\* aggregation gives no result.
C23_BinaryWinsAndBinOnlyIfConvertible ==
    \A i \in 1..2 :
        LET b == exprs[3 - i]
            o == exprs[i]
        IN  WeakerAt(i) =>
                /\ b.Collate = CollationBin => inferCollation(exprs) = Wins(b, o)
                /\ isBinCollation(b.Collate) =>
                      inferCollation(exprs) =
                          IF \/ o.Collate = CollationBin
                             \/ o.Charset = b.Charset
                             \/ o.Repe = ASCII
                             \/ o.Coer >= CoercibilitySysconst
                             \/ isUnicodeCollation(b.Charset)
                          THEN Wins(b, o)
                          ELSE <<>>

C23_Witness ==
    /\ WeakerAt(1)
    /\ exprs[2].Collate = CollationBin
    /\ exprs[1].Charset = CharsetGBK
    /\ exprs[1].Repe = UNICODE
    /\ exprs[2].Coer = CoercibilityImplicit
    /\ evalType = "ETString"
    /\ ec = Wins(exprs[2], exprs[1])

RECURSIVE RepertoireOfAll(_, _)
\* the bitwise OR of the repertoires of l[1..n]
RepertoireOfAll(l, n) ==
    IF n = 0 THEN 0 ELSE RepertoireOr(RepertoireOfAll(l, n - 1), l[n].Repe)

\* C24: whenever inferCollation returns a result for a non-empty argument
\* list, the result's repertoire is the bitwise OR of the repertoires of all
\* the arguments.
C24_RepertoireIsTheUnion ==
    (cpc = "returned" /\ Len(exprs) > 0 /\ inferCollation(exprs) # <<>>)
        => inferCollation(exprs)[1].Repe = RepertoireOfAll(exprs, Len(exprs))

C24_Witness ==
    /\ cpc = "returned"
    /\ Len(exprs) = 3
    /\ exprs[1].Repe = ASCII
    /\ exprs[2].Repe = EXTENDED
    /\ exprs[3].Repe = ASCII
    /\ exprs[1].Charset # exprs[2].Charset
    /\ cerr = "nil"
    /\ ec[1].Repe = UNICODE

\* a and b have the same coercibility and different charsets
IsTie(a, b) == a.Coer = b.Coer /\ a.Charset # b.Charset

\* C25, as stated: there are arguments A and B of equal coercibility and
\* different charsets for which resolving [A, B] and resolving [B, A] differ.
C25_SomeTieIsOrderDependent ==
    (ResolvedPair /\ IsTie(exprs[1], exprs[2])) =>
        \E a \in Args, b \in Args :
            /\ IsTie(a, b)
            /\ \/ inferCollation(<<a, b>>) # inferCollation(<<b, a>>)
               \/ \E t \in EvalTypes, ci \in CharsetInfos :
                     CheckAndDerive(t, ci, <<a, b>>) # CheckAndDerive(t, ci, <<b, a>>)

\* C25, amended: the two-argument aggregation does not depend on the order:
\* for all arguments A and B of equal coercibility and different charsets,
\* resolving [A, B] and resolving [B, A] give the same outcome (charset,
\* collation, coercibility, repertoire, success or failure).
C25_TiesAreOrderIndependent ==
    (ResolvedPair /\ IsTie(exprs[1], exprs[2])) =>
        /\ inferCollation(<<exprs[2], exprs[1]>>) = inferCollation(exprs)
        /\ CheckAndDerive(evalType, charsetInfo, <<exprs[2], exprs[1]>>)
               = [et |-> ec, err |-> cerr]

C25_Witness ==
    /\ ResolvedPair
    /\ IsTie(exprs[1], exprs[2])
    /\ exprs[1].Repe = ASCII
    /\ exprs[2].Repe = UNICODE
    /\ ~isUnicodeCollation(exprs[1].Charset)
    /\ ~isUnicodeCollation(exprs[2].Charset)
    /\ exprs[1].Collate # CollationBin
    /\ exprs[2].Collate # CollationBin
    /\ cerr = "nil"
    /\ ec[1].Collation = exprs[2].Collate

\* deriveCollation returned for a comparison, LIKE or IN over string arguments
ComparedStrings ==
    /\ cpc = "derived"
    /\ \/ funcName \in Comparisons /\ argTp = "ETString"
       \/ funcName = "like"
       \/ funcName = "in" /\ EvalTypeOf(exprs[1]) = "ETString"

\* C26: for every comparison operator, LIKE and IN applied to string
\* arguments, deriveCollation returns the aggregation of the arguments with
\* Numeric coercibility and ASCII repertoire.
C26_ComparisonsAreNumericAscii ==
    (ComparedStrings /\ cerr = "nil") =>
        /\ Len(ec) = 1
        /\ ec[1].Coer = CoercibilityNumeric
        /\ ec[1].Repe = ASCII

\* C27: while a command is being dispatched the status is Dispatching or
\* WaitShutdown, never Reading or Shutdown; and a command enters dispatch only
\* from Run's CAS of the status from Reading to Dispatching, when no command
\* is in dispatch: one command at a time.
C27_DispatchOnlyWhileDispatching ==
    /\ [](Dispatching => status \in {connStatusDispatching, connStatusWaitShutdown})
    /\ [][(~Dispatching /\ Dispatching') =>
             (pc = "cas2" /\ status = connStatusReading
              /\ status' = connStatusDispatching)]_vars

C27_Witness ==
    /\ Dispatching
    /\ status = connStatusWaitShutdown
    /\ pcS = "done"
    /\ sonRet = "false"

\* C28: the cancellation handle is installed once dispatch has begun to
\* handle the command, and it is cleared after the dispatch: while Run waits
\* to read the next command no handle is installed.
C28_CancelFuncClearedAfterDispatch ==
    /\ pc = "stmt" => cancelFunc
    /\ pc \in {"load", "read"} => ~cancelFunc

\* init_connect is still running, or failed
InitConnectFailed == \E i \in Events(hsLog, "initConnect") : hsLog[i].plugin = "failed"

\* C29: the OK packet of the handshake is written only after the greeting was
\* sent and the credentials were verified, with init_connect skipped or run to
\* its end in between, every statement executed and every row drained, and
\* with no packet to or from the client between the verification and the OK;
\* when init_connect fails, handshake returns errNewAbortingConnection and
\* writes no OK.
C29_OKOnlyAfterInitConnect ==
    /\ \A o \in Events(hsLog, "writeOK") :
          /\ \E g \in Events(hsLog, "writeGreeting"), a \in Events(hsLog, "auth") :
                /\ g < a
                /\ a < o
                /\ \A i \in (a + 1)..(o - 1) :
                      /\ hsLog[i].k \notin PacketKinds
                      /\ hsLog[i] = Ev("initConnect", 0, "complete")
          /\ icStmts = 0
          /\ icRows = 0
    /\ hpc = "ok" => (icStmts = 0 /\ icRows = 0)
    /\ InitConnectFailed =>
          /\ hpc = "done"
          /\ herr = "errNewAbortingConnection"
          /\ Events(hsLog, "writeOK") = {}
    /\ hpc \in {"initConnect", "icExec", "icNext"} => Events(hsLog, "writeOK") = {}

C29_Witness ==
    /\ hpc = "done"
    /\ herr = "nil"
    /\ Events(hsLog, "writeOK") # {}
    /\ Ev("initConnect", 0, "complete") = hsLog[Len(hsLog) - 1]

\* the first packet of the client carried the ClientSSL bit
FirstPacketHadSSL ==
    /\ Len(hsLog) >= 2
    /\ \E i \in 1..Len(hsLog) : hsLog[i] = FirstPacket(TRUE)

\* tlsConn.Handshake has run
TLSHandshakeDone == \E i \in 1..Len(hsLog) : hsLog[i].k = "tls"

\* what C30 says of a state
ResponseComesFromSecondPacket ==
    (FirstPacketHadSSL /\ tlsConfig) =>
        /\ ~TLSHandshakeDone => (respAuth = "" /\ respAuthPlugin = "" /\ ~tlsConn)
        /\ hpc = "body" => (TLSHandshakeDone /\ tlsConn /\ data = 2 /\ respHeaderOf = 2)
        /\ hpc = "authPlugin" => (respAuth = "packet 2" /\ respHeaderOf = 2)
        /\ respAuth # "" => (TLSHandshakeDone /\ tlsConn /\ respAuth # "packet 1"
                             /\ respHeaderOf = 2)

\* C30: when the first packet has ClientSSL set and a TLS configuration exists, no
\* credential is parsed before the TLS handshake, and the capability, the collation
\* and the credentials of the response all come from the packet read after the
\* upgrade; of the first packet only the format (isOldVersion) is kept
C30_ResponseComesFromSecondPacket ==
    /\ []ResponseComesFromSecondPacket
    /\ [][hpc = "tls" => isOldVersion' = isOldVersion]_vars

\* C30 happens: a response parsed to its end after an upgrade to TLS
C30_Witness ==
    /\ FirstPacketHadSSL /\ tlsConfig
    /\ tlsConn
    /\ respAuth = "packet 2"
    /\ respHeaderOf = 2
    /\ isOldVersion
    /\ hpc = "done"

\* the fast-auth sub-commands written before position i of the log
ShaCommandsBefore(i) == Cardinality({j \in 1..(i - 1) : hsLog[j].k = "writeShaCommand"})

\* the positions of the log where caching_sha2_password credentials are verified
ShaVerifications ==
    {i \in 1..Len(hsLog) : hsLog[i].k = "auth" /\ hsLog[i].plugin = AuthCachingSha2Password}

\* C31: a handshake whose resolved plugin is caching_sha2_password performs exactly
\* one fast-auth exchange before the credentials are verified, and verifies the
\* response of that exchange
C31_OneFastAuthExchange ==
    \A i \in ShaVerifications :
        /\ ShaCommandsBefore(i) = 1
        /\ respAuth = "sha response"

\* what the code does: the exchange is performed twice, once by handleAuthPlugin
\* and once by the switch that follows it
FastAuthExchangeRunsTwice ==
    \A i \in ShaVerifications :
        /\ ShaCommandsBefore(i) = 2
        /\ respAuth = "sha response"

\* the fetch responses written to their end
WholeResponses == {i \in 1..Len(fetchOut) : ~fetchOut[i].failed}

\* C32: a fetch response that carries no row has the cursor-exists bit cleared and
\* the last-row-sent bit set, is written with nothing stored and the executor
\* exhausted, and closes the result set; a response that carries a row keeps the
\* cursor-exists bit, has no last-row-sent bit and leaves the result set open
C32_OnlyEmptyResponseEndsCursor ==
    /\ \A i \in WholeResponses :
          IF fetchOut[i].rows = <<>>
          THEN /\ ~CursorExists(fetchOut[i]) /\ LastRowSent(fetchOut[i])
               /\ i = Len(fetchOut)
               /\ rsClosed /\ rsStored = <<>> /\ rsPos = rsTotal
          ELSE /\ CursorExists(fetchOut[i]) /\ ~LastRowSent(fetchOut[i])
               /\ (i = Len(fetchOut) => ~rsClosed)
    /\ rsClosed => (Len(fetchOut) \in WholeResponses /\ fetchOut[Len(fetchOut)].rows = <<>>)

\* C32 happens: the last rows were sent by one response, the cursor ended by the next
C32_Witness ==
    /\ rsClosed
    /\ Len(fetchOut) >= 2
    /\ Len(fetchOut) - 1 \in WholeResponses
    /\ fetchOut[Len(fetchOut) - 1].rows # <<>>
    /\ SentRows(fetchOut) = Rows(1, rsTotal)

\* the fold over exprs meets an unresolvable pair of different charsets at argument n
DowngradedAt(n) ==
    /\ n \in 2..Len(exprs)
    /\ aggAll(exprs, n).unknownCS
    /\ ~aggAll(exprs, n - 1).unknownCS

\* inferCollation ran over a list whose fold meets an unresolvable pair
FoldDowngraded == cpc = "returned" /\ \E n \in 2..Len(exprs) : DowngradedAt(n)

\* the last argument is the only one with Explicit coercibility
LastIsOnlyExplicit ==
    /\ exprs[Len(exprs)].Coer = CoercibilityExplicit
    /\ \A i \in 1..(Len(exprs) - 1) : exprs[i].Coer # CoercibilityExplicit

\* the downgrade itself, and the result when the final coercibility is not Explicit
DowngradeIsNoneBinary ==
    /\ \A n \in 2..Len(exprs) :
          DowngradedAt(n) =>
              /\ aggAll(exprs, n).coercibility = CoercibilityNone
              /\ aggAll(exprs, n).dstCharset = CharsetBin
              /\ aggAll(exprs, n).dstCollation = CollationBin
    /\ aggAll(exprs, Len(exprs)).coercibility # CoercibilityExplicit =>
          (inferCollation(exprs) = <<>> /\ ec = <<>> /\ cerr = illegalMixCollationErr)

\* inferCollation returns the last argument's charset and collation, Explicit
ReturnsLastExplicit ==
    /\ Len(inferCollation(exprs)) = 1
    /\ inferCollation(exprs)[1].Charset = exprs[Len(exprs)].Charset
    /\ inferCollation(exprs)[1].Collation = exprs[Len(exprs)].Collate
    /\ inferCollation(exprs)[1].Coer = CoercibilityExplicit

\* C33, as stated: a fold that meets an unresolvable pair downgrades to (None,
\* binary, binary) and goes on; when the last argument is the only Explicit one
\* inferCollation returns its charset and collation with Explicit coercibility,
\* and when the final coercibility is not Explicit it returns nil.
C33_LastExplicitAlwaysOverrides ==
    FoldDowngraded =>
        /\ DowngradeIsNoneBinary
        /\ LastIsOnlyExplicit => ReturnsLastExplicit

\* C33, amended: the same, but the last argument overrides the downgrade only when
\* the unresolvable pair is met before it; when the last argument is itself one of
\* the unresolvable pair the final coercibility is None and the result is nil.
C33_LastExplicitOverridesEarlierDowngrade ==
    FoldDowngraded =>
        /\ DowngradeIsNoneBinary
        /\ LastIsOnlyExplicit =>
              IF DowngradedAt(Len(exprs))
              THEN inferCollation(exprs) = <<>> /\ ec = <<>> /\ cerr = illegalMixCollationErr
              ELSE /\ ReturnsLastExplicit
                   /\ ec # <<>> => ec = inferCollation(exprs)

\* C33 happens: the first two of three arguments cannot be aggregated, the third
\* is Explicit and its charset and collation are the result
C33_Witness ==
    /\ FoldDowngraded
    /\ Len(exprs) = 3
    /\ DowngradedAt(2)
    /\ LastIsOnlyExplicit
    /\ exprs[3].Collate # CollationBin
    /\ ReturnsLastExplicit
    /\ cerr = "nil"
    /\ ec = inferCollation(exprs)

\* two arguments of one charset and two collations, neither the collation binary
SameCharsetPair ==
    /\ ResolvedPair
    /\ exprs[1].Charset = exprs[2].Charset
    /\ exprs[1].Collate # exprs[2].Collate
    /\ exprs[1].Collate # CollationBin
    /\ exprs[2].Collate # CollationBin

\* inferCollation gave charset cs, collation co and coercibility k
Inferred(cs, co, k) ==
    /\ Len(inferCollation(exprs)) = 1
    /\ inferCollation(exprs)[1].Charset = cs
    /\ inferCollation(exprs)[1].Collation = co
    /\ inferCollation(exprs)[1].Coer = k
    /\ (cerr = "nil" /\ k # CoercibilityNumeric) => ec = inferCollation(exprs)

\* C34: for two arguments of the same charset and different collations, neither
\* the collation binary: with unequal coercibility the argument of lower
\* coercibility gives the charset, collation and coercibility; with equal Explicit
\* coercibility the resolution fails; with equal coercibility that is not Explicit
\* the _bin collation of the two wins with the coercibility unchanged, and if
\* neither is a _bin collation the result is CoercibilityNone and the _bin
\* collation of the charset
C34_SameCharsetRules ==
    SameCharsetPair =>
        LET a == exprs[1]
            b == exprs[2]
            low == IF a.Coer < b.Coer THEN a ELSE b
            bin == IF isBinCollation(a.Collate) THEN a ELSE b
        IN  IF a.Coer # b.Coer
            THEN Inferred(low.Charset, low.Collate, low.Coer)
            ELSE IF a.Coer = CoercibilityExplicit
            THEN inferCollation(exprs) = <<>> /\ ec = <<>> /\ cerr = illegalMixCollationErr
            ELSE IF isBinCollation(a.Collate) \/ isBinCollation(b.Collate)
            THEN Inferred(a.Charset, bin.Collate, a.Coer)
            ELSE /\ Inferred(a.Charset, a.Charset \o "_bin", CoercibilityNone)
                 /\ CharsetOf[a.Charset \o "_bin"] = a.Charset

\* C34 happens: utf8mb4_general_ci and utf8mb4_unicode_ci, both Implicit, give
\* utf8mb4_bin and CoercibilityNone
C34_Witness ==
    /\ SameCharsetPair
    /\ evalType = "ETString"
    /\ exprs[1].Coer = CoercibilityImplicit
    /\ exprs[2].Coer = CoercibilityImplicit
    /\ ~isBinCollation(exprs[1].Collate)
    /\ ~isBinCollation(exprs[2].Collate)
    /\ cerr = "nil"
    /\ ec[1].Collation = CollationUTF8MB4
    /\ ec[1].Coer = CoercibilityNone

\* a string result was asked for and the fold ended with Numeric coercibility
StringOfNumeric ==
    /\ cpc = "returned"
    /\ evalType = "ETString"
    /\ Len(inferCollation(exprs)) = 1
    /\ inferCollation(exprs)[1].Coer = CoercibilityNumeric

\* the connection's charset and collation, Coercible, ASCII
SessionCollation ==
    [Coer |-> CoercibilityCoercible, Repe |-> ASCII,
     Charset |-> charsetInfo.Charset, Collation |-> charsetInfo.Collation]

\* the argument e cannot be converted to the charset cs without loss
Unconvertible(e, cs) ==
    /\ e.Charset # cs
    /\ e.Repe # ASCII
    /\ IF e.value = "column"
       THEN e.Collate # CollationBin /\ cs \notin {CharsetBin, CharsetUTF8, CharsetUTF8MB4}
       ELSE \/ (cs = CharsetASCII /\ e.value # "ascii")
            \/ (cs = CharsetGBK /\ e.value = "wide")

\* C35, as stated: with a string result type and a fold that ends Numeric,
\* CheckAndDeriveCollationFromExprs returns the connection's charset and
\* collation, Coercible and ASCII, whatever the arguments carried.
C35_NumericAlwaysGivesSession ==
    StringOfNumeric => (cerr = "nil" /\ ec = <<SessionCollation>>)

\* C35, amended: it returns the connection's charset and collation, Coercible and
\* ASCII, unless some argument of non-ASCII repertoire cannot be converted to the
\* connection's charset; then it fails with IllegalMixCollation.
C35_NumericGivesSessionIfConvertible ==
    StringOfNumeric =>
        IF \E i \in 1..Len(exprs) : Unconvertible(exprs[i], charsetInfo.Charset)
        THEN cerr = illegalMixCollationErr /\ ec = <<>>
        ELSE cerr = "nil" /\ ec = <<SessionCollation>>

\* C35 happens: two Numeric arguments of charset binary, a connection of gbk
C35_Witness ==
    /\ StringOfNumeric
    /\ Len(exprs) = 2
    /\ exprs[1].Charset = CharsetBin
    /\ exprs[2].Charset = CharsetBin
    /\ charsetInfo.Charset = CharsetGBK
    /\ cerr = "nil"
    /\ ec = <<SessionCollation>>

\* inferCollation found a winner and it passed the test of the result type
WinnerFound ==
    /\ cpc = "returned"
    /\ Len(inferCollation(exprs)) = 1
    /\ ~(evalType # "ETString" /\ inferCollation(exprs)[1].Coer = CoercibilityNone)

\* the charset that safeConvert tests the arguments against
WinningCharset == IF StringOfNumeric THEN charsetInfo.Charset ELSE inferCollation(exprs)[1].Charset

\* a non-constant argument of non-ASCII repertoire and of a charset other than the
\* winning one, with neither side binary and the winning charset not utf8 or utf8mb4
RejectedColumn(e) ==
    /\ e.value = "column"
    /\ e.Repe # ASCII
    /\ e.Charset # WinningCharset
    /\ e.Collate # CollationBin
    /\ WinningCharset \notin {CharsetBin, CharsetUTF8, CharsetUTF8MB4}

\* C36: CheckAndDeriveCollationFromExprs fails with IllegalMixCollation whenever
\* some non-constant argument of non-ASCII repertoire has a charset other than the
\* winning charset, unless the argument is binary or the winning charset is binary,
\* utf8 or utf8mb4; arguments of ASCII repertoire or of the winning charset never
\* cause the rejection
C36_SafeConvertRejects ==
    WinnerFound =>
        /\ (\E i \in 1..Len(exprs) : RejectedColumn(exprs[i])) =>
              (cerr = illegalMixCollationErr /\ ec = <<>>)
        /\ (\A i \in 1..Len(exprs) :
                exprs[i].Repe = ASCII \/ exprs[i].Charset = WinningCharset) =>
              (cerr = "nil" /\ Len(ec) = 1 /\ ec[1].Charset = WinningCharset)
        /\ (\A i \in 1..Len(exprs) : exprs[i].value = "column" /\ ~RejectedColumn(exprs[i])) =>
              cerr = "nil"

\* C36 happens: inferCollation accepts the arguments and a column is rejected
C36_Witness ==
    /\ WinnerFound
    /\ Len(exprs) = 2
    /\ ~RejectedColumn(exprs[1])
    /\ exprs[1].Charset = WinningCharset
    /\ RejectedColumn(exprs[2])
    /\ cerr = illegalMixCollationErr

\* C37: when secure transport is mandated, no handshake reaches the OK packet on a
\* connection that was not upgraded to TLS, whatever the client's response says
C37_SecureTransportNeedsTLS ==
    (requireSecureTransport /\ Events(hsLog, "writeOK") # {}) => tlsConn

\* what the code ensures: the mandate is enforced on every response but the one
\* that sets ClientSSL while the server has no TLS configuration
SecureTransportUnlessSSLWithoutConfig ==
    (requireSecureTransport /\ Events(hsLog, "writeOK") # {} /\ ~tlsConn) =>
        (FirstPacketHadSSL /\ ~tlsConfig)

\* C38: Shutdown is an absorbing status: once the status is Shutdown no step of Run
\* and no call of ShutdownOrNotify changes it, and the connection is not closed
\* by Run's exit handler
C38_ShutdownIsAbsorbing ==
    [][status = connStatusShutdown => (status' = connStatusShutdown /\ closed' = closed)]_vars

\* what the code ensures: no step of Run changes a status of Shutdown
RunKeepsShutdown ==
    [][(status = connStatusShutdown /\ pcS' = pcS) =>
          (status' = connStatusShutdown /\ closed' = closed)]_vars

\* dispatch of one of the simple commands has returned nil
CommandReturnedNil == cmd \in SimpleCommands /\ pc = "cas1" /\ err = "nil"

\* C39: for ComInitDB, ComPing, ComStatistics, ComRefresh and ComShutdown, a
\* dispatch that returns without error has written exactly one response packet
C39_OneResponsePerCommand == CommandReturnedNil => Len(out) = 1

\* what the code does: the commands redirected to handleQuery, ComShutdown and
\* ComRefresh with sub-command 1, answer with two OK packets
OneResponseUnlessRedirected ==
    CommandReturnedNil => Len(out) = (IF executed = <<>> THEN 1 ELSE 2)

\* the goroutines inside cc.readPacket
Readers ==
    (IF lpc = "drainRead" THEN {"handleLoadData"} ELSE {})
    \cup (IF ppc = "read" THEN {"processStream"} ELSE {})

\* what C40 says of a state: one reader at most, the drain loop only after the
\* goroutine has finished, and no packet read by processStream after one read by
\* the drain loop
OneReaderAtATime ==
    /\ Cardinality(Readers) <= 1
    /\ lpc \in {"drain", "drainRead"} => (ppc = "done" /\ lerr # "nil")
    /\ \A i, j \in 1..Len(readLog) :
          (i < j /\ readLog[i].by = "handleLoadData") => readLog[j].by = "handleLoadData"

\* what C40 says of a step: the drain loop is left only with Drained set, by the
\* empty packet or before the loop began, on a read error or on a kill request
DrainStopsOnlyWhenDone ==
    (lpc \in {"drain", "drainRead"} /\ lpc' \notin {"drain", "drainRead"}) =>
        /\ lpc' = "returned"
        /\ \/ drained'
           \/ lret' = "ErrQueryInterrupted"
           \/ /\ Len(readLog') = Len(readLog) + 1
              /\ readLog'[Len(readLog')] \in {ReadPacket("handleLoadData", "error"),
                                               ReadPacket("handleLoadData", "io.EOF")}

\* C40: during LOAD DATA at most one goroutine reads packets from the connection:
\* the drain loop of handleLoadData reads only after processStream has finished,
\* and after a commit error it stops only on the empty packet, a read error or a
\* kill request
C40_OneReaderAndDrainToTheEnd == []OneReaderAtATime /\ [][DrainStopsOnlyWhenDone]_vars

\* C40 happens: after a commit error the drain loop has read the data packets that
\* processStream left and the empty packet
C40_Witness ==
    /\ lpc = "returned"
    /\ lerr = "other"
    /\ lret = "other"
    /\ drained
    /\ Len(readLog) >= 3
    /\ readLog[1].by = "processStream"
    /\ readLog[Len(readLog) - 1] = ReadPacket("handleLoadData", "data")
    /\ readLog[Len(readLog)] = ReadPacket("handleLoadData", "empty")

====
